---- MODULE Spec2Model ----
(***************************************************************************)
(* Model of voice_agent.sessions.permissions: the PermissionHandler of one *)
(* session, the request_permission coroutines suspended on it, and the     *)
(* synchronous approve / deny / sticky_approve / clear_sticky_approvals    *)
(* calls made on it from other tasks of the same asyncio event loop.       *)
(*                                                                         *)
(* Strings that the code inspects character by character (Bash commands,   *)
(* file paths) are tuples of one-character strings; tool names and deny    *)
(* messages, which the code only compares and copies, are TLA+ strings.    *)
(* Python's None is the string "None" for messages and patterns and the    *)
(* object id 0 for the handler's pending field.                            *)
(***************************************************************************)
EXTENDS Integers, Sequences, FiniteSets, TLC

\* Bound: number of PendingPermission objects alive at the same time, each
\* with the request_permission coroutine that created it.
MaxSlots == 2

Slots == 1..MaxSlots

None == "None"

\* PermissionState
PENDING == "PENDING"
APPROVED == "APPROVED"
DENIED == "DENIED"
TIMEOUT == "TIMEOUT"

PermissionState == {PENDING, APPROVED, DENIED, TIMEOUT}

TOOL_FIELD_NAMES ==
    [t \in {"Bash", "Write", "Edit", "NotebookEdit"} |->
        CASE t = "Bash" -> "command"
          [] t = "Write" -> "file_path"
          [] t = "Edit" -> "file_path"
          [] t = "NotebookEdit" -> "notebook_path"]

SAFE_TOOLS == {"Read", "Glob", "Grep", "WebSearch", "WebFetch"}

SAFE_BASH_PATTERNS ==
    { <<"l", "s">>,
      <<"c", "a", "t">>,
      <<"h", "e", "a", "d">>,
      <<"t", "a", "i", "l">>,
      <<"p", "w", "d">>,
      <<"e", "c", "h", "o">>,
      <<"w", "h", "i", "c", "h">>,
      <<"g", "i", "t", " ", "s", "t", "a", "t", "u", "s">>,
      <<"g", "i", "t", " ", "l", "o", "g">>,
      <<"g", "i", "t", " ", "d", "i", "f", "f">>,
      <<"g", "i", "t", " ", "b", "r", "a", "n", "c", "h">>,
      <<"g", "i", "t", " ", "s", "h", "o", "w">> }

TimedOutMessage == "Permission request timed out"

(***************************************************************************)
(* Python string and dict primitives used by the module.                   *)
(***************************************************************************)
Whitespace == {" ", "\t", "\n", "\r"}

RECURSIVE lstrip(_)
lstrip(s) ==
    IF s # <<>> /\ Head(s) \in Whitespace THEN lstrip(Tail(s)) ELSE s

RECURSIVE rstrip(_)
rstrip(s) ==
    IF s # <<>> /\ s[Len(s)] \in Whitespace
    THEN rstrip(SubSeq(s, 1, Len(s) - 1))
    ELSE s

\* str.strip()
strip(s) == rstrip(lstrip(s))

\* str.startswith(prefix)
startswith(s, prefix) ==
    /\ Len(prefix) <= Len(s)
    /\ SubSeq(s, 1, Len(prefix)) = prefix

\* re.search(pattern, value) for a pattern without metacharacters:
\* the pattern occurs somewhere in the value.
re_search(pattern, value) ==
    \E i \in 1..(Len(value) + 1) :
        /\ i + Len(pattern) - 1 <= Len(value)
        /\ SubSeq(value, i, i + Len(pattern) - 1) = pattern

\* dict.get(key, default)
get(input_data, key, default) ==
    IF key \in DOMAIN input_data THEN input_data[key] ELSE default

(***************************************************************************)
(* The tool calls the agent client submits.                                *)
(***************************************************************************)
Cmd_cat_padded == <<" ", " ", "c", "a", "t", " ", "x", " ">>
Cmd_lsof == <<"l", "s", "o", "f">>
Cmd_git_status == <<"g", "i", "t", " ", "s", "t", "a", "t", "u", "s">>
Cmd_rm_ls == <<" ", "r", "m", " ", "l", "s">>
Path_a == <<"/", "a">>

SafeToolCalls ==
    { [tool_name |-> t, input_data |-> [file_path |-> Path_a]] : t \in SAFE_TOOLS }

SafeBashCalls ==
    { [tool_name |-> "Bash", input_data |-> [command |-> c]] :
        c \in {Cmd_cat_padded, Cmd_lsof, Cmd_git_status} }

UnsafeBashCalls ==
    { [tool_name |-> "Bash", input_data |-> [command |-> c]] :
        c \in {Cmd_rm_ls} }

OtherCalls ==
    { [tool_name |-> "Write", input_data |-> [file_path |-> Path_a]] }

ToolCalls == SafeToolCalls \cup SafeBashCalls \cup UnsafeBashCalls \cup OtherCalls

\* Messages a caller passes to deny().
DenyMessages == {None, "", "x"}

\* deny(): message or "User rejected"
deny_message_or_default(message) ==
    IF message = None \/ message = "" THEN "User rejected" ELSE message

(***************************************************************************)
(* State.  A slot k holds one PendingPermission object, perms[k], and the  *)
(* request_permission coroutine that created it, calls[k].  The object is  *)
(* alive while the handler's pending field, its own coroutine or a         *)
(* coroutine waiting on its event refers to it; a slot whose object is no  *)
(* longer referenced is released, as Python releases the object.           *)
(***************************************************************************)
VARIABLES
    pending,           \* PermissionHandler.pending: slot of the object, 0 = None
    perms,             \* the PendingPermission objects, by slot
    sticky_approvals,  \* PermissionHandler.sticky_approvals
    notify_callback,   \* PermissionHandler.notify_callback is set
    calls,             \* the request_permission coroutines, by slot
    resolvedBy,        \* history: the resolutions applied to each object
    stickySince,       \* history: tools sticky-approved since the last clear
    last               \* history: the last step on the handler and its outcome

handlerVars == <<pending, perms, sticky_approvals, notify_callback, calls,
                 resolvedBy, stickySince, last>>

(***************************************************************************)
(* State of the SessionManager and of its SessionStorage.  Session objects *)
(* live in session_objects and are referred to by their place in it, as    *)
(* Python refers to an object; a place nothing refers to is released.      *)
(***************************************************************************)
VARIABLES
    sessions,          \* SessionManager.sessions: chat_id -> (name -> Session)
    active_sessions,   \* SessionManager.active_sessions: chat_id -> name
    session_objects,   \* the Session objects, by reference
    storage,           \* SessionManager.storage is set
    storage_data,      \* SessionStorage._data: chat_id -> ChatStoredState
    streams,           \* the send_prompt generators, by prompt
    closing,           \* sessions with a _close_client task not yet run
    returned           \* history: the last call on the SessionManager

managerVars == <<sessions, active_sessions, session_objects, storage,
                 storage_data, streams, closing, returned>>

\* The bot's prompt tasks (run_prompt), its per-chat locks, _active_tasks,
\* _cancel_flags, and the task a _handle_cancel in progress is awaiting.
VARIABLES tasks, prompt_locks, active_tasks, cancel_flags, awaiting

\* Whether the handler that awaits a task is _do_restart, the callback data
\* of the buttons the bot has shown to each chat, and _pending_renames.
VARIABLES restarting, buttons, pending_renames

uiVars == <<restarting, buttons, pending_renames>>

botVars == <<tasks, prompt_locks, active_tasks, cancel_flags, awaiting,
             restarting, buttons, pending_renames>>

\* The file of the SessionStorage (storage.py, line 102: self.path), and the
\* last call of parse_command with what it returned.
VARIABLES disk, parsed

ioVars == <<disk, parsed>>

vars == <<handlerVars, managerVars, botVars, ioVars>>

\* No file at the path of the store.
NoFile == [kind |-> "absent"]

\* parse_command has not been called.
NotParsed ==
    [text |-> <<>>, projects |-> <<>>, command_type |-> None,
     command_text |-> <<>>, project |-> <<>>]

\* The store's file and the router where they play no part.
IoInit ==
    /\ disk = NoFile
    /\ parsed = NotParsed

NoInput == [none |-> None]

\* PendingPermission(tool_name, input_data)
PendingPermission(tool_name, input_data) ==
    [tool_name |-> tool_name, input_data |-> input_data,
     event |-> FALSE, state |-> PENDING, deny_message |-> None]

\* A released slot.
NoPermission ==
    [tool_name |-> None, input_data |-> NoInput,
     event |-> FALSE, state |-> None, deny_message |-> None]

\* A coroutine: where it is suspended and the object whose event it waits on.
Coroutine(pc, waiting) == [pc |-> pc, waiting |-> waiting]

NoCoroutine == Coroutine("none", 0)

Suspended == {"notify", "wait", "timeout"}

\* StickyApproval(tool_name, pattern, field_name)
StickyApproval(tool_name, pattern, field_name) ==
    [tool_name |-> tool_name, pattern |-> pattern, field_name |-> field_name]

\* The record of a step.  op: the operation called; at: for request_permission
\* the point the coroutine ran from ("entry", "notify", "wait", "timeout");
\* outcome: "returned", "raised" or "suspended"; ret: the value returned;
\* pp: the object request_permission created; log: the resolutions that object
\* had received; tool_name, input_data: the arguments of request_permission.
Event(op, at, outcome, ret, pp, log, tool_name, input_data) ==
    [op |-> op, at |-> at, outcome |-> outcome, ret |-> ret, pp |-> pp,
     log |-> log, tool_name |-> tool_name, input_data |-> input_data]

\* sticky_approve() returning None
NoStickyApproval == StickyApproval(None, None, None)

\* matches without the comparison of the tool names.
matches_any_tool(approval, tool_name, input_data) ==
    IF approval.pattern = None THEN TRUE
    ELSE IF approval.field_name = None THEN TRUE
    ELSE LET field_value == get(input_data, approval.field_name, <<>>)
         IN  IF field_value = <<>> THEN FALSE
             ELSE re_search(approval.pattern, field_value)

\* StickyApproval.matches
matches(approval, tool_name, input_data) ==
    IF tool_name # approval.tool_name THEN FALSE
    ELSE IF approval.pattern = None THEN TRUE
    ELSE IF approval.field_name = None THEN TRUE
    ELSE LET field_value == get(input_data, approval.field_name, <<>>)
         IN  IF field_value = <<>> THEN FALSE
             ELSE re_search(approval.pattern, field_value)

\* is_safe_bash_command without command.strip().
is_safe_bash_command_unstripped(command) ==
    \E pattern \in SAFE_BASH_PATTERNS : startswith(command, pattern)

is_safe_bash_command(command) ==
    \E pattern \in SAFE_BASH_PATTERNS : startswith(strip(command), pattern)

is_safe_tool_call(tool_name, input_data) ==
    IF tool_name \in SAFE_TOOLS THEN TRUE
    ELSE IF tool_name = "Bash"
         THEN is_safe_bash_command(get(input_data, "command", <<>>))
         ELSE FALSE

\* PermissionHandler._check_sticky_approval
check_sticky_approval(tool_name, input_data) ==
    \E i \in 1..Len(sticky_approvals) :
        matches(sticky_approvals[i], tool_name, input_data)

\* PermissionHandler.has_pending
has_pending == pending # 0 /\ perms[pending].state = PENDING

Unknown == <<"u", "n", "k", "n", "o", "w", "n">>

NoDescription == [label |-> None]

\* PermissionHandler.get_pending_description
get_pending_description ==
    IF pending = 0 THEN NoDescription
    ELSE LET tool == perms[pending].tool_name
             inputs == perms[pending].input_data
         IN  IF tool = "Bash"
             THEN [label |-> "Run command: ", arg |-> get(inputs, "command", Unknown)]
             ELSE IF tool = "Write"
             THEN [label |-> "Write file: ", arg |-> get(inputs, "file_path", Unknown)]
             ELSE IF tool = "Edit"
             THEN [label |-> "Edit file: ", arg |-> get(inputs, "file_path", Unknown)]
             ELSE [label |-> "Use tool: ", tool |-> tool]

\* PermissionHandler.__init__
PermissionHandlerInit ==
    /\ pending = 0
    /\ perms = [k \in Slots |-> NoPermission]
    /\ sticky_approvals = <<>>
    /\ notify_callback \in BOOLEAN
    /\ calls = [k \in Slots |-> NoCoroutine]
    /\ resolvedBy = [k \in Slots |-> <<>>]
    /\ stickySince = {}
    /\ last = Event("init", None, "none", <<>>, 0, <<>>, None, NoInput)

\* The objects still referenced once the handler and the coroutines are as given.
Referenced(p, cs) ==
    {k \in Slots : cs[k].pc \in Suspended}
    \cup {cs[k].waiting : k \in {j \in Slots : cs[j].pc \in Suspended}}
    \cup {p}

\* The step's effect on the handler, the objects and the coroutines, with the
\* objects nothing refers to any more released.
Update(p, ps, cs, rs) ==
    /\ pending' = p
    /\ perms' = [k \in Slots |->
                    IF k \in Referenced(p, cs) THEN ps[k] ELSE NoPermission]
    /\ calls' = [k \in Slots |->
                    IF cs[k].pc \in Suspended THEN cs[k] ELSE NoCoroutine]
    /\ resolvedBy' = [k \in Slots |->
                    IF k \in Referenced(p, cs) THEN rs[k] ELSE <<>>]

FreeSlots == Slots \ Referenced(pending, calls)

Min(S) == CHOOSE x \in S : \A y \in S : x <= y

Resolution(op, message) == [op |-> op, message |-> message]

\* A step of the event loop that is no call and no return.
Await == Event("await", None, "none", <<>>, 0, <<>>, None, NoInput)

\* request_permission ends with an exception in the coroutine of slot k.
Raised(at, k) ==
    Event("request_permission", at, "raised", <<>>, k, resolvedBy[k],
          None, NoInput)

\* A synchronous operation returns ret.
Returns(op, ret) == Event(op, None, "returned", ret, 0, <<>>, None, NoInput)

\* A request_permission that starts waiting without the notify callback.
request_permission_unnotified(tool_name, input_data) ==
    IF is_safe_tool_call(tool_name, input_data)
       \/ check_sticky_approval(tool_name, input_data)
    THEN /\ last' = Event("request_permission", "entry", "returned",
                          <<TRUE, None>>, 0, <<>>, tool_name, input_data)
         /\ UNCHANGED <<managerVars, botVars, ioVars, pending, perms,
                        sticky_approvals, notify_callback, calls, resolvedBy,
                        stickySince>>
    ELSE /\ FreeSlots # {}
         /\ LET k == Min(FreeSlots)
            IN  /\ Update(k,
                     [perms EXCEPT ![k] = PendingPermission(tool_name, input_data)],
                     [calls EXCEPT ![k] = Coroutine("wait", k)],
                     [resolvedBy EXCEPT ![k] = <<>>])
                /\ last' = Event("request_permission", "entry", "suspended",
                                 <<>>, k, <<>>, tool_name, input_data)
         /\ UNCHANGED <<managerVars, botVars, ioVars, sticky_approvals,
                        notify_callback, stickySince>>

(***************************************************************************)
(* request_permission, lines 249-262: everything up to the first await.    *)
(* Without a notify callback the coroutine goes on to line 266 and starts  *)
(* waiting on the event of the object it has just stored.                  *)
(***************************************************************************)
request_permission(tool_name, input_data) ==
    IF is_safe_tool_call(tool_name, input_data)
    THEN /\ last' = Event("request_permission", "entry", "returned",
                          <<TRUE, None>>, 0, <<>>, tool_name, input_data)
         /\ UNCHANGED <<managerVars, botVars, ioVars, pending, perms, sticky_approvals, notify_callback,
                        calls, resolvedBy, stickySince>>
    ELSE IF check_sticky_approval(tool_name, input_data)
    THEN /\ last' = Event("request_permission", "entry", "returned",
                          <<TRUE, None>>, 0, <<>>, tool_name, input_data)
         /\ UNCHANGED <<managerVars, botVars, ioVars, pending, perms, sticky_approvals, notify_callback,
                        calls, resolvedBy, stickySince>>
    ELSE /\ FreeSlots # {}
         /\ LET k == Min(FreeSlots)
            IN  /\ Update(k,
                     [perms EXCEPT ![k] = PendingPermission(tool_name, input_data)],
                     [calls EXCEPT ![k] =
                        IF notify_callback THEN Coroutine("notify", 0)
                                           ELSE Coroutine("wait", k)],
                     [resolvedBy EXCEPT ![k] = <<>>])
                /\ last' = Event("request_permission", "entry", "suspended",
                                 <<>>, k, <<>>, tool_name, input_data)
         /\ UNCHANGED <<managerVars, botVars, ioVars, sticky_approvals, notify_callback, stickySince>>

(***************************************************************************)
(* request_permission, line 262: the awaited notify callback returns, and  *)
(* line 266 reads self.pending.event to start waiting on it.  The field    *)
(* may have been cleared or replaced while the coroutine was suspended;    *)
(* reading .event of None raises AttributeError, which nothing catches.    *)
(***************************************************************************)
notify_returns(k) ==
    /\ calls[k].pc = "notify"
    /\ IF pending = 0
       THEN /\ Update(pending, perms, [calls EXCEPT ![k] = NoCoroutine],
                      resolvedBy)
            /\ last' = Raised("notify", k)
       ELSE /\ Update(pending, perms,
                      [calls EXCEPT ![k] = Coroutine("wait", pending)],
                      resolvedBy)
            /\ last' = Await
    /\ UNCHANGED <<managerVars, botVars, ioVars, sticky_approvals, notify_callback, stickySince>>

\* line 262: the awaited notify callback raises; nothing catches it.
notify_raises(k) ==
    /\ calls[k].pc = "notify"
    /\ Update(pending, perms, [calls EXCEPT ![k] = NoCoroutine], resolvedBy)
    /\ last' = Raised("notify", k)
    /\ UNCHANGED <<managerVars, botVars, ioVars, sticky_approvals, notify_callback, stickySince>>

(***************************************************************************)
(* request_permission, lines 266-270: the event waited on has been set and *)
(* the event loop runs the coroutine again.                                *)
(***************************************************************************)
resume(k) ==
    /\ calls[k].pc = "wait"
    /\ perms[calls[k].waiting].event
    /\ IF pending = 0
       THEN /\ Update(pending, perms, [calls EXCEPT ![k] = NoCoroutine],
                      resolvedBy)
            /\ last' = Raised("wait", k)
       ELSE LET approved == perms[pending].state = APPROVED
                message == perms[pending].deny_message
            IN  /\ Update(0, perms, [calls EXCEPT ![k] = NoCoroutine],
                          resolvedBy)
                /\ last' = Event("request_permission", "wait", "returned",
                                 <<approved, message>>, k, resolvedBy[k],
                                 None, NoInput)
    /\ UNCHANGED <<managerVars, botVars, ioVars, sticky_approvals, notify_callback, stickySince>>

(***************************************************************************)
(* asyncio.wait_for, line 266: the timer expires before the event is set.  *)
(* The timer callback only cancels the wait; the coroutine runs its except *)
(* branch when the event loop schedules it again, and other callbacks of   *)
(* the loop may run in between.                                            *)
(***************************************************************************)
timer_fires(k) ==
    /\ calls[k].pc = "wait"
    /\ ~perms[calls[k].waiting].event
    /\ Update(pending, perms, [calls EXCEPT ![k] = Coroutine("timeout", 0)],
              resolvedBy)
    /\ last' = Await
    /\ UNCHANGED <<managerVars, botVars, ioVars, sticky_approvals, notify_callback, stickySince>>

\* request_permission, lines 271-274: the except branch.
timeout_resume(k) ==
    /\ calls[k].pc = "timeout"
    /\ IF pending = 0
       THEN /\ Update(pending, perms, [calls EXCEPT ![k] = NoCoroutine],
                      resolvedBy)
            /\ last' = Raised("timeout", k)
       ELSE LET rs == [resolvedBy EXCEPT
                         ![pending] = Append(@, Resolution("timeout", None))]
            IN  /\ Update(0, [perms EXCEPT ![pending].state = TIMEOUT],
                          [calls EXCEPT ![k] = NoCoroutine], rs)
                /\ last' = Event("request_permission", "timeout", "returned",
                                 <<FALSE, TimedOutMessage>>, k, rs[k],
                                 None, NoInput)
    /\ UNCHANGED <<managerVars, botVars, ioVars, sticky_approvals, notify_callback, stickySince>>

(***************************************************************************)
(* The synchronous operations, called from other tasks of the loop.        *)
(***************************************************************************)
\* approve without the test of the state.
approve_any_state ==
    IF pending = 0
    THEN /\ last' = Returns("approve", FALSE)
         /\ UNCHANGED <<managerVars, botVars, ioVars, pending, perms, sticky_approvals, notify_callback,
                        calls, resolvedBy, stickySince>>
    ELSE /\ perms' = [perms EXCEPT ![pending].state = APPROVED,
                                   ![pending].event = TRUE]
         /\ resolvedBy' = [resolvedBy EXCEPT
                             ![pending] = Append(@, Resolution("approve", None))]
         /\ last' = Returns("approve", TRUE)
         /\ UNCHANGED <<managerVars, botVars, ioVars, pending, sticky_approvals, notify_callback,
                        calls, stickySince>>

approve ==
    IF pending = 0 \/ perms[pending].state # PENDING
    THEN /\ last' = Returns("approve", FALSE)
         /\ UNCHANGED <<managerVars, botVars, ioVars, pending, perms, sticky_approvals, notify_callback,
                        calls, resolvedBy, stickySince>>
    ELSE /\ perms' = [perms EXCEPT ![pending].state = APPROVED,
                                   ![pending].event = TRUE]
         /\ resolvedBy' = [resolvedBy EXCEPT
                             ![pending] = Append(@, Resolution("approve", None))]
         /\ last' = Returns("approve", TRUE)
         /\ UNCHANGED <<managerVars, botVars, ioVars, pending, sticky_approvals, notify_callback,
                        calls, stickySince>>

\* deny without the test of the state.
deny_any_state(message) ==
    IF pending = 0
    THEN /\ last' = Returns("deny", FALSE)
         /\ UNCHANGED <<managerVars, botVars, ioVars, pending, perms, sticky_approvals, notify_callback,
                        calls, resolvedBy, stickySince>>
    ELSE /\ perms' = [perms EXCEPT
                ![pending].state = DENIED,
                ![pending].deny_message = deny_message_or_default(message),
                ![pending].event = TRUE]
         /\ resolvedBy' = [resolvedBy EXCEPT
                ![pending] = Append(@, Resolution("deny",
                                        deny_message_or_default(message)))]
         /\ last' = Returns("deny", TRUE)
         /\ UNCHANGED <<managerVars, botVars, ioVars, pending, sticky_approvals, notify_callback,
                        calls, stickySince>>

deny(message) ==
    IF pending = 0 \/ perms[pending].state # PENDING
    THEN /\ last' = Returns("deny", FALSE)
         /\ UNCHANGED <<managerVars, botVars, ioVars, pending, perms, sticky_approvals, notify_callback,
                        calls, resolvedBy, stickySince>>
    ELSE /\ perms' = [perms EXCEPT
                ![pending].state = DENIED,
                ![pending].deny_message = deny_message_or_default(message),
                ![pending].event = TRUE]
         /\ resolvedBy' = [resolvedBy EXCEPT
                ![pending] = Append(@, Resolution("deny",
                                        deny_message_or_default(message)))]
         /\ last' = Returns("deny", TRUE)
         /\ UNCHANGED <<managerVars, botVars, ioVars, pending, sticky_approvals, notify_callback,
                        calls, stickySince>>

\* sticky_approve without the test of the state.
sticky_approve_any_state ==
    IF pending = 0
    THEN /\ last' = Returns("sticky_approve", NoStickyApproval)
         /\ UNCHANGED <<managerVars, botVars, ioVars, pending, perms, sticky_approvals, notify_callback,
                        calls, resolvedBy, stickySince>>
    ELSE LET tool_name == perms[pending].tool_name
             field_name == get(TOOL_FIELD_NAMES, tool_name, None)
             sticky == StickyApproval(tool_name, None, field_name)
         IN  /\ sticky_approvals' = Append(sticky_approvals, sticky)
             /\ perms' = [perms EXCEPT ![pending].state = APPROVED,
                                       ![pending].event = TRUE]
             /\ resolvedBy' = [resolvedBy EXCEPT
                    ![pending] = Append(@, Resolution("sticky_approve", None))]
             /\ stickySince' = stickySince \cup {tool_name}
             /\ last' = Returns("sticky_approve", sticky)
             /\ UNCHANGED <<managerVars, botVars, ioVars, pending, notify_callback, calls>>

sticky_approve ==
    IF pending = 0 \/ perms[pending].state # PENDING
    THEN /\ last' = Returns("sticky_approve", NoStickyApproval)
         /\ UNCHANGED <<managerVars, botVars, ioVars, pending, perms, sticky_approvals, notify_callback,
                        calls, resolvedBy, stickySince>>
    ELSE LET tool_name == perms[pending].tool_name
             field_name == get(TOOL_FIELD_NAMES, tool_name, None)
             sticky == StickyApproval(tool_name, None, field_name)
         IN  /\ sticky_approvals' = Append(sticky_approvals, sticky)
             /\ perms' = [perms EXCEPT ![pending].state = APPROVED,
                                       ![pending].event = TRUE]
             /\ resolvedBy' = [resolvedBy EXCEPT
                    ![pending] = Append(@, Resolution("sticky_approve", None))]
             /\ stickySince' = stickySince \cup {tool_name}
             /\ last' = Returns("sticky_approve", sticky)
             /\ UNCHANGED <<managerVars, botVars, ioVars, pending, notify_callback, calls>>

clear_sticky_approvals ==
    LET count == Len(sticky_approvals)
    IN  /\ sticky_approvals' = <<>>
        /\ stickySince' = {}
        /\ last' = Returns("clear_sticky_approvals", count)
        /\ UNCHANGED <<managerVars, botVars, ioVars, pending, perms, notify_callback, calls, resolvedBy>>

Next ==
    \/ \E tc \in ToolCalls : request_permission(tc.tool_name, tc.input_data)
    \/ \E k \in Slots : notify_returns(k)
    \/ \E k \in Slots : notify_raises(k)
    \/ \E k \in Slots : resume(k)
    \/ \E k \in Slots : timer_fires(k)
    \/ \E k \in Slots : timeout_resume(k)
    \/ approve
    \/ \E m \in DenyMessages : deny(m)
    \/ sticky_approve
    \/ clear_sticky_approvals

(***************************************************************************)
(* The Session Registry (SessionManager) and the Session Store.            *)
(***************************************************************************)
MaxSessions == 3

MaxMessages == 1

Chats == {1, 2}

Names == {"main", "work"}

\* name: str | None
NameArgs == Names \cup {None, ""}

default_cwd == "/code"

\* cwd: str | None
CwdArgs == {None, "/x"}

\* session_id: str | None
SessionIdArgs == {None, "sid"}

SessionRefs == 1..MaxSessions

MaxTasks == 3

Prompts == 1..MaxTasks

\* a or b
py_or(a, b) == IF a = None \/ a = "" THEN b ELSE a

\* A Session that is born with a client.
SessionWithClient(chat_id, name, cwd, message_count, claude_session_id) ==
    [chat_id |-> chat_id, name |-> name, cwd |-> cwd,
     message_count |-> message_count, has_pending |-> FALSE,
     pending_tool |-> None, sticky_approvals |-> <<>>,
     sdk_client |-> TRUE, claude_session_id |-> claude_session_id]

\* A Session whose handler starts with a sticky approval for Write.
SessionAllowingWrite(chat_id, name, cwd, message_count, claude_session_id) ==
    [chat_id |-> chat_id, name |-> name, cwd |-> cwd,
     message_count |-> message_count, has_pending |-> FALSE,
     pending_tool |-> None,
     sticky_approvals |-> <<[tool_name |-> "Write", pattern |-> None,
                             field_name |-> "file_path"]>>,
     sdk_client |-> FALSE, claude_session_id |-> claude_session_id]

\* Session(chat_id, name, cwd, permission_handler=PermissionHandler(...)):
\* of the handler, whether a request is pending on it, the tool of that
\* request and the sticky_approvals are kept.
Session(chat_id, name, cwd, message_count, claude_session_id) ==
    [chat_id |-> chat_id, name |-> name, cwd |-> cwd,
     message_count |-> message_count, has_pending |-> FALSE,
     pending_tool |-> None, sticky_approvals |-> <<>>,
     sdk_client |-> FALSE, claude_session_id |-> claude_session_id]

\* A released reference.
NoSession ==
    [chat_id |-> 0, name |-> None, cwd |-> None, message_count |-> 0,
     has_pending |-> FALSE, pending_tool |-> None, sticky_approvals |-> <<>>,
     sdk_client |-> FALSE, claude_session_id |-> None]

\* StoredSession; created_at is left out, nothing decides on it.
StoredSession(session) ==
    [chat_id |-> session.chat_id, name |-> session.name, cwd |-> session.cwd,
     message_count |-> session.message_count,
     claude_session_id |-> session.claude_session_id]

ChatStoredState(active_session, stored_sessions) ==
    [active_session |-> active_session, sessions |-> stored_sessions]

\* A dict is a function on its keys; d[k] = v and del d[k].
SetItem(d, k, v) == [x \in (DOMAIN d) \cup {k} |-> IF x = k THEN v ELSE d[x]]

DelItem(d, k) == [x \in (DOMAIN d) \ {k} |-> d[x]]

EmptyDict == [x \in {} |-> None]

\* A dict whose order counts (name -> value) is the sequence of its items.
Item(name, value) == [name |-> name, value |-> value]

Keys(items) == {items[i].name : i \in 1..Len(items)}

IndexOf(items, name) == CHOOSE i \in 1..Len(items) : items[i].name = name

GetItem(items, name) == items[IndexOf(items, name)].value

\* A dict assignment that adds an entry even when the key is present.
PutItemAppend(items, name, value) == Append(items, Item(name, value))

\* items[name] = value: a known key keeps its place, a new one goes last.
PutItem(items, name, value) ==
    IF name \in Keys(items)
    THEN [items EXCEPT ![IndexOf(items, name)] = Item(name, value)]
    ELSE Append(items, Item(name, value))

\* del items[name]
PopItem(items, name) == SelectSeq(items, LAMBDA it : it.name # name)

(***************************************************************************)
(* SessionStorage, on the value of _data.                                  *)
(***************************************************************************)
\* SessionStorage.save_session
storage_save_session(data, stored) ==
    LET chat_id == stored.chat_id
        state == IF chat_id \notin DOMAIN data
                 THEN ChatStoredState(stored.name, <<>>)
                 ELSE data[chat_id]
    IN  SetItem(data, chat_id,
                [state EXCEPT !.sessions = PutItem(@, stored.name, stored)])

\* SessionStorage.set_active_session
storage_set_active_session(data, chat_id, name) ==
    IF chat_id \in DOMAIN data /\ name \in Keys(data[chat_id].sessions)
    THEN [data EXCEPT ![chat_id].active_session = name]
    ELSE data

\* A delete_session that leaves active_session as it is.
storage_delete_keeps_active(data, chat_id, name) ==
    IF chat_id \notin DOMAIN data \/ name \notin Keys(data[chat_id].sessions)
    THEN data
    ELSE SetItem(data, chat_id,
                 ChatStoredState(data[chat_id].active_session,
                                 PopItem(data[chat_id].sessions, name)))

\* SessionStorage.delete_session
storage_delete_session(data, chat_id, name) ==
    IF chat_id \notin DOMAIN data \/ name \notin Keys(data[chat_id].sessions)
    THEN data
    ELSE LET remaining == PopItem(data[chat_id].sessions, name)
         IN  IF data[chat_id].active_session = name
             THEN IF remaining # <<>>
                  THEN SetItem(data, chat_id,
                               ChatStoredState(remaining[1].name, remaining))
                  ELSE DelItem(data, chat_id)
             ELSE SetItem(data, chat_id,
                          ChatStoredState(data[chat_id].active_session,
                                          remaining))

\* SessionStorage.rename_session
storage_rename_session(data, chat_id, old_name, new_name) ==
    IF chat_id \notin DOMAIN data \/ old_name \notin Keys(data[chat_id].sessions)
    THEN data
    ELSE IF new_name \in Keys(data[chat_id].sessions)
    THEN data
    ELSE LET state == data[chat_id]
             session == [GetItem(state.sessions, old_name)
                            EXCEPT !.name = new_name]
             renamed == Append(PopItem(state.sessions, old_name),
                               Item(new_name, session))
         IN  SetItem(data, chat_id,
                     ChatStoredState(IF state.active_session = old_name
                                     THEN new_name ELSE state.active_session,
                                     renamed))

(***************************************************************************)
(* SessionManager.                                                         *)
(***************************************************************************)
\* A send_prompt generator: where it is suspended and the Session it holds.
Stream(pc, session) == [pc |-> pc, session |-> session]

NoStream == Stream("none", 0)

\* The record of a call: op, its chat_id, the Session it returned or acted on
\* (0 for None) and, for the calls that return a bool, ok.
Returned(op, chat_id, session, ok) ==
    [op |-> op, chat_id |-> chat_id, session |-> session, ok |-> ok]

\* SessionManager.__init__ with an empty store: _restore_sessions finds no chat.
SessionManagerInit ==
    /\ sessions = EmptyDict
    /\ active_sessions = EmptyDict
    /\ session_objects = [r \in SessionRefs |-> NoSession]
    /\ storage \in BOOLEAN
    /\ storage_data = EmptyDict
    /\ streams = [g \in Prompts |-> NoStream]
    /\ closing = {}
    /\ returned = Returned("init", 0, 0, FALSE)

\* The Session objects a registry refers to, in the order of its chats and
\* of their dicts.
RECURSIVE RegistryOrder(_, _)
RegistryOrder(sess, chats) ==
    IF chats = {} THEN <<>>
    ELSE LET c == Min(chats)
         IN  [i \in 1..Len(sess[c]) |-> sess[c][i].value]
             \o RegistryOrder(sess, chats \ {c})

Range(seq) == {seq[i] : i \in 1..Len(seq)}

\* refs followed by the Session objects the generators g, g+1, ... hold and
\* refs has not.
RECURSIVE StreamOrder(_, _, _)
StreamOrder(refs, strs, g) ==
    IF g \notin Prompts THEN refs
    ELSE IF strs[g].pc = "none" \/ strs[g].session \in Range(refs)
    THEN StreamOrder(refs, strs, g + 1)
    ELSE StreamOrder(Append(refs, strs[g].session), strs, g + 1)

\* The Session objects a registry and the generators refer to.  An object
\* only a _close_client task refers to is out of everyone's reach.
Live(sess, strs) == StreamOrder(RegistryOrder(sess, DOMAIN sess), strs, 1)

FreeRefs == SessionRefs \ Range(Live(sessions, streams))

\* The step's effect on the manager and the store and the call it records.
\* The Session objects nothing refers to any more are released and the
\* others are referred to by their place in Live: which reference an object
\* has is of no consequence.
Commit(sess, act, objs, data, strs, cl, ret) ==
    \E live \in {Live(sess, strs)} :
    \E place \in {[r \in Range(live) |->
                     CHOOSE k \in 1..Len(live) : live[k] = r]} :
        /\ sessions' = [c \in DOMAIN sess |->
                          [i \in 1..Len(sess[c]) |->
                             Item(sess[c][i].name, place[sess[c][i].value])]]
        /\ active_sessions' = act
        /\ session_objects' = [k \in SessionRefs |->
                                 IF k <= Len(live) THEN objs[live[k]]
                                                   ELSE NoSession]
        /\ storage_data' = data
        /\ streams' = [g \in Prompts |->
                         IF strs[g].pc = "none" THEN NoStream
                         ELSE Stream(strs[g].pc, place[strs[g].session])]
        /\ closing' = {place[r] : r \in cl \cap Range(live)}
        /\ returned' = [ret EXCEPT !.session =
                          IF @ \in Range(live) THEN place[@] ELSE 0]
        /\ UNCHANGED storage

\* SessionManager._persist_session
persist_session(data, session) ==
    IF ~storage THEN data ELSE storage_save_session(data, StoredSession(session))

\* if self.storage: self.storage.set_active_session(chat_id, name)
persist_active_session(data, chat_id, name) ==
    IF ~storage THEN data ELSE storage_set_active_session(data, chat_id, name)

\* SessionManager._get_active_session_name, on a value of active_sessions
active_name(act, chat_id) ==
    IF chat_id \in DOMAIN act THEN act[chat_id] ELSE "main"

\* SessionManager.get: the Session or 0 for None
manager_get(chat_id, name) ==
    IF chat_id \notin DOMAIN sessions THEN 0
    ELSE LET session_name == py_or(name, active_name(active_sessions, chat_id))
         IN  IF session_name \in Keys(sessions[chat_id])
             THEN GetItem(sessions[chat_id], session_name)
             ELSE 0

SessionInfo(name, message_count, cwd, is_active) ==
    [name |-> name, message_count |-> message_count, cwd |-> cwd,
     is_active |-> is_active]

\* SessionManager.list_sessions
list_sessions(chat_id) ==
    IF chat_id \notin DOMAIN sessions THEN <<>>
    ELSE LET active == active_name(active_sessions, chat_id)
         IN  [i \in 1..Len(sessions[chat_id]) |->
                LET session == session_objects[sessions[chat_id][i].value]
                IN  SessionInfo(session.name, session.message_count,
                                session.cwd, session.name = active)]

\* SessionManager.get_active_session_name
get_active_session_name(chat_id) ==
    IF chat_id \notin DOMAIN sessions THEN None
    ELSE active_name(active_sessions, chat_id)

\* The body of get_or_create: the registry, the objects and the store after
\* it, and the Session it returns; ref is the place of a Session it creates.
GetOrCreate(chat_id, cwd, name, ref) ==
    LET known == chat_id \in DOMAIN sessions
        sess1 == IF known THEN sessions ELSE SetItem(sessions, chat_id, <<>>)
        act1 == IF known THEN active_sessions
                ELSE SetItem(active_sessions, chat_id, "main")
        session_name == py_or(name, active_name(act1, chat_id))
    IN  IF session_name \in Keys(sess1[chat_id])
        THEN [sessions |-> sess1, active_sessions |-> act1,
              session_objects |-> session_objects,
              storage_data |-> storage_data,
              session |-> GetItem(sess1[chat_id], session_name)]
        ELSE LET session == Session(chat_id, session_name,
                                    py_or(cwd, default_cwd), 0, None)
                 data1 == persist_session(storage_data, session)
                 is_active == session_name = active_name(act1, chat_id)
             IN  [sessions |-> [sess1 EXCEPT ![chat_id] =
                                   PutItem(@, session_name, ref)],
                  active_sessions |-> IF is_active
                                      THEN SetItem(act1, chat_id, session_name)
                                      ELSE act1,
                  session_objects |-> [session_objects EXCEPT ![ref] = session],
                  storage_data |-> IF is_active
                                   THEN persist_active_session(data1, chat_id,
                                                               session_name)
                                   ELSE data1,
                  session |-> ref]

\* get_or_create creates a Session
Creates(chat_id, name) ==
    \/ chat_id \notin DOMAIN sessions
    \/ py_or(name, active_name(active_sessions, chat_id))
          \notin Keys(sessions[chat_id])

\* a place for a new Session: the least one that is free, 0 if there is none
NewRef == IF FreeRefs = {} THEN 0 ELSE Min(FreeRefs)

\* SessionManager.get_or_create
get_or_create(chat_id, cwd, name) ==
    /\ Creates(chat_id, name) => FreeRefs # {}
    /\ \E r \in {GetOrCreate(chat_id, cwd, name, NewRef)} :
          /\ Commit(r.sessions, r.active_sessions, r.session_objects,
                     r.storage_data, streams, closing,
                     Returned("get_or_create", chat_id, r.session, TRUE))
    /\ UNCHANGED <<handlerVars, botVars, ioVars>>

\* CreateNew that makes the new session active only when its name is the
\* chat's active name or the chat is new, as get_or_create does.
CreateNewActiveIfSameName(chat_id, cwd, name, ref, awaited) ==
    LET known == chat_id \in DOMAIN sessions
        sess1 == IF known THEN sessions ELSE SetItem(sessions, chat_id, <<>>)
        act1 == IF known THEN active_sessions
                ELSE SetItem(active_sessions, chat_id, "main")
        session_name == py_or(name, "main")
        replaces == session_name \in Keys(sess1[chat_id])
        old == IF replaces THEN GetItem(sess1[chat_id], session_name) ELSE 0
        has_client == replaces /\ session_objects[old].sdk_client
        session == Session(chat_id, session_name, py_or(cwd, default_cwd),
                           0, None)
        objs1 == IF has_client /\ awaited
                 THEN [session_objects EXCEPT ![old].sdk_client = FALSE]
                 ELSE session_objects
        is_active == session_name = active_name(act1, chat_id)
    IN  [sessions |-> [sess1 EXCEPT ![chat_id] = PutItem(@, session_name, ref)],
         active_sessions |-> act1,
         session_objects |-> [objs1 EXCEPT ![ref] = session],
         storage_data |-> IF is_active
                          THEN persist_active_session(
                                   persist_session(storage_data, session),
                                   chat_id, session_name)
                          ELSE persist_session(storage_data, session),
         closing |-> IF has_client /\ ~awaited THEN closing \cup {old}
                                               ELSE closing,
         session |-> ref]

\* The registry, the objects, the store and the close tasks after create_new
\* (awaited = FALSE) or create_new_async (awaited = TRUE); ref is the place
\* of the new Session.
CreateNew(chat_id, cwd, name, ref, awaited) ==
    LET known == chat_id \in DOMAIN sessions
        sess1 == IF known THEN sessions ELSE SetItem(sessions, chat_id, <<>>)
        session_name == py_or(name, "main")
        replaces == session_name \in Keys(sess1[chat_id])
        old == IF replaces THEN GetItem(sess1[chat_id], session_name) ELSE 0
        has_client == replaces /\ session_objects[old].sdk_client
        session == Session(chat_id, session_name, py_or(cwd, default_cwd),
                           0, None)
        objs1 == IF has_client /\ awaited
                 THEN [session_objects EXCEPT ![old].sdk_client = FALSE]
                 ELSE session_objects
    IN  [sessions |-> [sess1 EXCEPT ![chat_id] = PutItem(@, session_name, ref)],
         active_sessions |-> SetItem(active_sessions, chat_id, session_name),
         session_objects |-> [objs1 EXCEPT ![ref] = session],
         storage_data |-> persist_active_session(
                              persist_session(storage_data, session),
                              chat_id, session_name),
         closing |-> IF has_client /\ ~awaited THEN closing \cup {old}
                                               ELSE closing,
         session |-> ref]

\* SessionManager.create_new
create_new(chat_id, cwd, name) ==
    /\ FreeRefs # {}
    /\ \E r \in {CreateNew(chat_id, cwd, name, NewRef, FALSE)} :
          /\ Commit(r.sessions, r.active_sessions, r.session_objects,
                     r.storage_data, streams, r.closing,
                     Returned("create_new", chat_id, r.session, TRUE))
    /\ UNCHANGED <<handlerVars, botVars, ioVars>>

\* SessionManager.create_new_async: the awaited _close_client never suspends.
create_new_async(chat_id, cwd, name) ==
    /\ FreeRefs # {}
    /\ \E r \in {CreateNew(chat_id, cwd, name, NewRef, TRUE)} :
          /\ Commit(r.sessions, r.active_sessions, r.session_objects,
                     r.storage_data, streams, r.closing,
                     Returned("create_new_async", chat_id, r.session, TRUE))
    /\ UNCHANGED <<handlerVars, botVars, ioVars>>

\* A switch that creates the session it does not find.
switch_or_create(chat_id, name) == get_or_create(chat_id, None, name)

\* The body of switch_session, which returns ok.
SwitchSession(chat_id, name) ==
    IF chat_id \notin DOMAIN sessions
    THEN /\ returned' = Returned("switch_session", chat_id, 0, FALSE)
         /\ UNCHANGED <<sessions, active_sessions, session_objects, storage,
                        storage_data, streams, closing>>
    ELSE IF name \notin Keys(sessions[chat_id])
    THEN /\ returned' = Returned("switch_session", chat_id, 0, FALSE)
         /\ UNCHANGED <<sessions, active_sessions, session_objects, storage,
                        storage_data, streams, closing>>
    ELSE /\ Commit(sessions, SetItem(active_sessions, chat_id, name),
                   session_objects,
                   persist_active_session(storage_data, chat_id, name),
                   streams, closing,
                   Returned("switch_session", chat_id, GetItem(sessions[chat_id], name), TRUE))

\* SessionManager.switch_session
switch_session(chat_id, name) ==
    /\ SwitchSession(chat_id, name)
    /\ UNCHANGED <<handlerVars, botVars, ioVars>>

\* The body of rename_session, which returns ok.
RenameSession(chat_id, old_name, new_name) ==
    IF \/ chat_id \notin DOMAIN sessions
       \/ old_name \notin Keys(sessions[chat_id])
       \/ new_name \in Keys(sessions[chat_id])
    THEN /\ returned' = Returned("rename_session", chat_id, 0,
                                 FALSE)
         /\ UNCHANGED <<sessions, active_sessions, session_objects, storage,
                        storage_data, streams, closing>>
    ELSE LET session == GetItem(sessions[chat_id], old_name)
             renamed == Append(PopItem(sessions[chat_id], old_name),
                               Item(new_name, session))
         IN  /\ Commit([sessions EXCEPT ![chat_id] = renamed],
                       IF chat_id \in DOMAIN active_sessions
                          /\ active_sessions[chat_id] = old_name
                       THEN SetItem(active_sessions, chat_id, new_name)
                       ELSE active_sessions,
                       [session_objects EXCEPT ![session].name = new_name],
                       IF storage
                       THEN storage_rename_session(storage_data, chat_id,
                                                   old_name, new_name)
                       ELSE storage_data,
                       streams, closing,
                       Returned("rename_session", chat_id, session, TRUE))

\* SessionManager.rename_session
rename_session(chat_id, old_name, new_name) ==
    /\ RenameSession(chat_id, old_name, new_name)
    /\ UNCHANGED <<handlerVars, botVars, ioVars>>

\* SessionManager.set_cwd
set_cwd(chat_id, cwd) ==
    /\ Creates(chat_id, None) => FreeRefs # {}
    /\ \E r \in {GetOrCreate(chat_id, None, None, NewRef)} :
       \E objs \in {[r.session_objects EXCEPT ![r.session].cwd = cwd]} :
          Commit(r.sessions, r.active_sessions, objs,
                 persist_session(r.storage_data, objs[r.session]),
                 streams, closing,
                 Returned("set_cwd", chat_id, r.session, TRUE))
    /\ UNCHANGED <<handlerVars, botVars, ioVars>>

\* SessionManager.set_claude_session_id
set_claude_session_id(chat_id, session_id) ==
    /\ LET session == manager_get(chat_id, None)
       IN  IF session = 0
           THEN /\ returned' = Returned("set_claude_session_id", chat_id,
                                        0, FALSE)
                /\ UNCHANGED <<sessions, active_sessions, session_objects,
                               storage, storage_data, streams, closing>>
           ELSE LET objs == [session_objects EXCEPT
                               ![session].claude_session_id = session_id]
                IN  /\ Commit(sessions, active_sessions, objs,
                              persist_session(storage_data, objs[session]),
                              streams, closing,
                              Returned("set_claude_session_id", chat_id, session, TRUE))
    /\ UNCHANGED <<handlerVars, botVars, ioVars>>

\* The body of close_session (awaited = FALSE) and close_session_async
\* (awaited = TRUE), which returns ok.
CloseSession(op, chat_id, name, awaited) ==
    IF chat_id \notin DOMAIN sessions
    THEN /\ returned' = Returned(op, chat_id, 0, FALSE)
         /\ UNCHANGED <<sessions, active_sessions, session_objects, storage,
                        storage_data, streams, closing>>
    ELSE IF name \notin Keys(sessions[chat_id])
    THEN /\ returned' = Returned(op, chat_id, 0, FALSE)
         /\ UNCHANGED <<sessions, active_sessions, session_objects, storage,
                        storage_data, streams, closing>>
    ELSE LET session == GetItem(sessions[chat_id], name)
             has_client == session_objects[session].sdk_client
             remaining == PopItem(sessions[chat_id], name)
             data1 == IF storage
                      THEN storage_delete_session(storage_data, chat_id, name)
                      ELSE storage_data
             was_active == chat_id \in DOMAIN active_sessions
                           /\ active_sessions[chat_id] = name
         IN  /\ Commit(
                  IF was_active /\ remaining = <<>>
                  THEN DelItem(sessions, chat_id)
                  ELSE [sessions EXCEPT ![chat_id] = remaining],
                  IF ~was_active THEN active_sessions
                  ELSE IF remaining # <<>>
                  THEN SetItem(active_sessions, chat_id, remaining[1].name)
                  ELSE DelItem(active_sessions, chat_id),
                  IF has_client /\ awaited
                  THEN [session_objects EXCEPT ![session].sdk_client = FALSE]
                  ELSE session_objects,
                  IF was_active /\ remaining # <<>>
                  THEN persist_active_session(data1, chat_id,
                                              remaining[1].name)
                  ELSE data1,
                  streams,
                  IF has_client /\ ~awaited THEN closing \cup {session}
                                            ELSE closing,
                       Returned(op, chat_id, session, TRUE))

\* SessionManager.close_session
close_session(chat_id, name) ==
    /\ CloseSession("close_session", chat_id, name, FALSE)
    /\ UNCHANGED <<handlerVars, botVars, ioVars>>

\* SessionManager.close_session_async
close_session_async(chat_id, name) ==
    /\ CloseSession("close_session_async", chat_id, name, TRUE)
    /\ UNCHANGED <<handlerVars, botVars, ioVars>>

\* The task asyncio.create_task(self._close_client(session)) runs.
close_client_task(session) ==
    /\ session \in closing
    /\ Commit(sessions, active_sessions,
              [session_objects EXCEPT ![session].sdk_client = FALSE],
              storage_data, streams, closing \ {session},
              Returned("await", 0, 0, FALSE))
    /\ UNCHANGED <<handlerVars, botVars, ioVars>>

(***************************************************************************)
(* send_prompt, an async generator.  It is suspended at "submit" (the      *)
(* awaits of _get_or_create_client and client.query, between which it      *)
(* changes nothing), at "receive" (the next message of receive_response),  *)
(* at "chunk" (a text chunk yielded to its consumer) or at "error" (the    *)
(* error chunk yielded to its consumer).                                   *)
(***************************************************************************)
Internal == Returned("await", 0, 0, FALSE)

\* A send_prompt that does not count the prompt.
SendPromptUncounted(g, chat_id) ==
    /\ streams[g].pc = "none"
    /\ Creates(chat_id, None) => FreeRefs # {}
    /\ \E r \in {GetOrCreate(chat_id, None, None, NewRef)} :
          Commit(r.sessions, r.active_sessions,
                 [r.session_objects EXCEPT ![r.session].sdk_client = TRUE],
                 r.storage_data,
                 [streams EXCEPT ![g] = Stream("submit", r.session)],
                 closing,
                 Returned("send_prompt", chat_id, r.session, TRUE))

\* lines 559-564: get_or_create, the count, the client created if there is none
SendPrompt(g, chat_id) ==
    /\ streams[g].pc = "none"
    /\ Creates(chat_id, None) => FreeRefs # {}
    /\ \E r \in {GetOrCreate(chat_id, None, None, NewRef)} :
          Commit(r.sessions, r.active_sessions,
                 [r.session_objects EXCEPT
                    ![r.session].message_count = @ + 1,
                    ![r.session].sdk_client = TRUE],
                 r.storage_data,
                 [streams EXCEPT ![g] = Stream("submit", r.session)],
                 closing,
                 Returned("send_prompt", chat_id, r.session, TRUE))

\* send_prompt called by a consumer outside the bot; the session's count
\* stays within MaxMessages.
send_prompt(g, chat_id) ==
    /\ manager_get(chat_id, None) # 0 =>
          session_objects[manager_get(chat_id, None)].message_count
             < MaxMessages
    /\ SendPrompt(g, chat_id)
    /\ UNCHANGED <<handlerVars, botVars, ioVars>>

\* line 557: the import of claude_agent_sdk at the head of send_prompt fails
\* and the ImportError leaves the generator at its first step, before
\* get_or_create and outside the try statement.
ImportFails(g, chat_id) ==
    /\ streams[g].pc = "none"
    /\ returned' = Returned("send_prompt_raises", chat_id, 0, FALSE)
    /\ UNCHANGED <<sessions, active_sessions, session_objects, storage,
                   storage_data, streams, closing>>

send_prompt_raises(g, chat_id) ==
    /\ ImportFails(g, chat_id)
    /\ UNCHANGED <<handlerVars, botVars, ioVars>>

\* lines 563-566: the client is connected and the prompt submitted
stream_submitted(g) ==
    /\ streams[g].pc = "submit"
    /\ Commit(sessions, active_sessions, session_objects, storage_data,
              [streams EXCEPT ![g].pc = "receive"], closing,
              Internal)
    /\ UNCHANGED <<handlerVars, botVars, ioVars>>

\* lines 566-570: a text block arrives and is yielded
stream_yields(g) ==
    /\ streams[g].pc = "receive"
    /\ Commit(sessions, active_sessions, session_objects, storage_data,
              [streams EXCEPT ![g].pc = "chunk"], closing,
              Internal)
    /\ UNCHANGED <<handlerVars, botVars, ioVars>>

\* the consumer asks for the next chunk
stream_next(g) ==
    /\ streams[g].pc = "chunk"
    /\ Commit(sessions, active_sessions, session_objects, storage_data,
              [streams EXCEPT ![g].pc = "receive"], closing,
              Internal)
    /\ UNCHANGED <<handlerVars, botVars, ioVars>>

\* lines 579-580: the response is over; the session is persisted
stream_ends(g) ==
    /\ streams[g].pc = "receive"
    /\ Commit(sessions, active_sessions, session_objects,
              persist_session(storage_data, session_objects[streams[g].session]),
              [streams EXCEPT ![g] = NoStream], closing,
              Returned("send_prompt_end", 0, streams[g].session, TRUE))
    /\ UNCHANGED <<handlerVars, botVars, ioVars>>

\* lines 584-586: the client raises; the error chunk is yielded
stream_fails(g) ==
    /\ streams[g].pc \in {"submit", "receive"}
    /\ Commit(sessions, active_sessions, session_objects, storage_data,
              [streams EXCEPT ![g].pc = "error"], closing,
              Internal)
    /\ UNCHANGED <<handlerVars, botVars, ioVars>>

\* lines 587-588: the consumer asks for more after the error chunk
stream_closes_client(g) ==
    /\ streams[g].pc = "error"
    /\ Commit(sessions, active_sessions,
              [session_objects EXCEPT ![streams[g].session].sdk_client = FALSE],
              storage_data, [streams EXCEPT ![g] = NoStream], closing,
              Returned("send_prompt_end", 0, streams[g].session, FALSE))
    /\ UNCHANGED <<handlerVars, botVars, ioVars>>

\* The consumer stops iterating at a chunk, or its task is cancelled while
\* the generator awaits: the generator is left where it is and runs no more.
stream_abandoned(g) ==
    /\ streams[g].pc # "none"
    /\ Commit(sessions, active_sessions, session_objects, storage_data,
              [streams EXCEPT ![g] = NoStream], closing,
              Internal)
    /\ UNCHANGED <<handlerVars, botVars, ioVars>>

\* permission_callback, lines 485-499: the client of a session asks for a
\* permission while its response is being received, and the request pends.
permission_callback(g) ==
    /\ streams[g].pc = "receive"
    /\ ~session_objects[streams[g].session].has_pending
    /\ Commit(sessions, active_sessions,
              [session_objects EXCEPT ![streams[g].session].has_pending = TRUE],
              storage_data, streams, closing,
              Internal)
    /\ UNCHANGED <<handlerVars, botVars, ioVars>>

\* permission_callback returns: the request was resolved or timed out.
permission_callback_returns(g) ==
    /\ streams[g].pc = "receive"
    /\ session_objects[streams[g].session].has_pending
    /\ Commit(sessions, active_sessions,
              [session_objects EXCEPT ![streams[g].session].has_pending = FALSE],
              storage_data, streams, closing,
              Internal)
    /\ UNCHANGED <<handlerVars, botVars, ioVars>>

\* The registry is driven for one chat and one prompt at a time: the
\* operations on a chat read and write the entries of that chat only.
RegistryChats == {1}

RegistryPrompts == {1}

\* The operations of the registry, no prompt being in flight.
RegistryNext ==
    \/ \E c \in RegistryChats, cwd \in CwdArgs, n \in NameArgs :
          get_or_create(c, cwd, n)
    \/ \E c \in RegistryChats, cwd \in CwdArgs, n \in NameArgs :
          create_new(c, cwd, n)
    \/ \E c \in RegistryChats, cwd \in CwdArgs, n \in NameArgs :
          create_new_async(c, cwd, n)
    \/ \E c \in RegistryChats, n \in Names : switch_session(c, n)
    \/ \E c \in RegistryChats, o \in Names, n \in Names : rename_session(c, o, n)
    \/ \E c \in RegistryChats : set_cwd(c, "/x")
    \/ \E c \in RegistryChats, id \in SessionIdArgs :
          set_claude_session_id(c, id)
    \/ \E c \in RegistryChats, n \in Names : close_session(c, n)
    \/ \E c \in RegistryChats, n \in Names : close_session_async(c, n)

\* Prompts in flight while sessions are created, replaced, switched and closed.
PromptNext ==
    \/ \E c \in RegistryChats, n \in NameArgs : get_or_create(c, None, n)
    \/ \E c \in RegistryChats, n \in NameArgs : create_new(c, None, n)
    \/ \E c \in RegistryChats, n \in NameArgs : create_new_async(c, None, n)
    \/ \E c \in RegistryChats, n \in Names : switch_session(c, n)
    \/ \E c \in RegistryChats, n \in Names : close_session(c, n)
    \/ \E c \in RegistryChats, n \in Names : close_session_async(c, n)
    \/ \E r \in SessionRefs : close_client_task(r)
    \/ \E g \in RegistryPrompts, c \in RegistryChats : send_prompt(g, c)
    \/ \E g \in RegistryPrompts, c \in RegistryChats : send_prompt_raises(g, c)
    \/ \E g \in RegistryPrompts : stream_submitted(g)
    \/ \E g \in RegistryPrompts : stream_yields(g)
    \/ \E g \in RegistryPrompts : stream_next(g)
    \/ \E g \in RegistryPrompts : stream_ends(g)
    \/ \E g \in RegistryPrompts : stream_fails(g)
    \/ \E g \in RegistryPrompts : stream_closes_client(g)
    \/ \E g \in RegistryPrompts : stream_abandoned(g)
    \/ \E g \in RegistryPrompts : permission_callback(g)
    \/ \E g \in RegistryPrompts : permission_callback_returns(g)

(***************************************************************************)
(* The bot (VoiceAgentBot): prompts, the per-chat lock and cancellation.   *)
(* Updates are handled one at a time (build_application, line 904, does    *)
(* not enable concurrent updates); each prompt runs in a task of its own,  *)
(* run_prompt, whose steps the event loop interleaves at its awaits.       *)
(* Tasks are numbered in the order _handle_prompt created them.            *)
(***************************************************************************)
BatchSize == 5

\* A run_prompt task: its chat, where it is suspended, whether a
\* CancelledError is on its way to it, and len(response_buffer).
Task(chat_id, pc, cancelling, buffer) ==
    [chat_id |-> chat_id, pc |-> pc, cancelling |-> cancelling,
     buffer |-> buffer]

NoTask == Task(0, "none", FALSE, 0)

\* asyncio.Lock: _locked, the tasks in _waiters, and whether the future of
\* the first waiter has its result (it was woken up by a release).
Lock(locked, waiters, woken) ==
    [locked |-> locked, waiters |-> waiters, woken |-> woken]

\* lines 53-55: no lock, no task, no flag
VoiceAgentBotInit ==
    /\ tasks = [t \in Prompts |-> NoTask]
    /\ prompt_locks = [c \in Chats |-> Lock(FALSE, <<>>, FALSE)]
    /\ active_tasks = [c \in Chats |-> 0]
    /\ cancel_flags = [c \in Chats |-> "absent"]
    /\ awaiting = 0
    /\ restarting = FALSE
    /\ buttons = [c \in Chats |-> {}]
    /\ pending_renames = [c \in Chats |-> None]

\* self._cancel_flags.get(chat_id, False)
Flagged(chat_id) == cancel_flags[chat_id] = "True"

\* task and not task.done()
Running(t) == t # 0 /\ tasks[t].pc # "done"

\* the positions of run_prompt inside "async with lock"
InExchange ==
    {"working", "stream", "batch", "send", "error_reply", "cleanup"}

\* A Lock.acquire that takes the lock whatever its state.
FastPathAnyState(lock) == TRUE

\* Lock.acquire takes the lock at once when it is not locked and every
\* waiter's future is cancelled.
FastPath(lock) ==
    /\ ~lock.locked
    /\ \A i \in 1..Len(lock.waiters) :
          /\ tasks[lock.waiters[i]].cancelling
          /\ ~(lock.woken /\ i = 1)

\* A Lock.release that wakes no waiter up.
ReleaseWithoutWakeUp(lock) == Lock(FALSE, lock.waiters, FALSE)

\* Lock.release: unlocked, and the first waiter is woken up unless its
\* future is done (cancelled).
Release(lock) ==
    Lock(FALSE, lock.waiters,
         lock.waiters # <<>> /\ ~tasks[Head(lock.waiters)].cancelling)

\* A CancelledError reaches waiter t inside Lock.acquire: t leaves the
\* waiters and, the lock not being locked, the first waiter is woken up.
Abandon(lock, t) ==
    LET rest == SelectSeq(lock.waiters, LAMBDA w : w # t)
    IN  Lock(lock.locked, rest,
             /\ rest # <<>>
             /\ ~lock.locked
             /\ IF Head(lock.waiters) = t THEN ~tasks[Head(rest)].cancelling
                                          ELSE lock.woken)

\* The first step of a task comes after the first steps of the tasks
\* created before it (the event loop runs what is ready in order).
Ready(t) == \A u \in Prompts : u < t => tasks[u].pc # "start"

\* _handle_prompt, lines 811-896: the task is created and recorded as the
\* chat's active task.
handle_prompt(t, chat_id) ==
    /\ awaiting = 0
    /\ tasks[t].pc = "none"
    /\ \A u \in Prompts : u < t => tasks[u].pc # "none"
    /\ tasks' = [tasks EXCEPT ![t] = Task(chat_id, "start", FALSE, 0)]
    /\ active_tasks' = [active_tasks EXCEPT ![chat_id] = t]
    /\ UNCHANGED <<prompt_locks, cancel_flags, awaiting>>
    /\ UNCHANGED <<handlerVars, managerVars, ioVars, uiVars>>

\* lines 846-855: "async with lock" by task t, then the flag is reset and
\* the "Working..." message is being sent; or t waits for the lock.
Acquire(t) ==
    LET c == tasks[t].chat_id
    IN  IF FastPath(prompt_locks[c])
        THEN /\ prompt_locks' = [prompt_locks EXCEPT ![c].locked = TRUE]
             /\ tasks' = [tasks EXCEPT ![t].pc = "working"]
             /\ cancel_flags' = [cancel_flags EXCEPT ![c] = "False"]
        ELSE /\ prompt_locks' = [prompt_locks EXCEPT
                                    ![c].waiters = Append(@, t)]
             /\ tasks' = [tasks EXCEPT ![t].pc = "acquire"]
             /\ UNCHANGED cancel_flags

\* lines 842-846: the task starts; the lock being held it sends the
\* "Queued" notice, otherwise it goes for the lock.
run_prompt(t) ==
    /\ tasks[t].pc = "start"
    /\ ~tasks[t].cancelling
    /\ Ready(t)
    /\ IF prompt_locks[tasks[t].chat_id].locked
       THEN /\ tasks' = [tasks EXCEPT ![t].pc = "notice"]
            /\ UNCHANGED <<prompt_locks, cancel_flags>>
       ELSE Acquire(t)
    /\ UNCHANGED <<active_tasks, awaiting>>
    /\ UNCHANGED <<handlerVars, managerVars, ioVars, uiVars>>

\* lines 843-846: the "Queued" notice is sent; the task goes for the lock.
queued_notice_sent(t) ==
    /\ tasks[t].pc = "notice"
    /\ ~tasks[t].cancelling
    /\ Acquire(t)
    /\ UNCHANGED <<active_tasks, awaiting>>
    /\ UNCHANGED <<handlerVars, managerVars, ioVars, uiVars>>

\* line 846: the woken waiter takes the lock.
lock_acquired(t) ==
    LET c == tasks[t].chat_id
    IN  /\ tasks[t].pc = "acquire"
        /\ ~tasks[t].cancelling
        /\ prompt_locks[c].woken
        /\ Head(prompt_locks[c].waiters) = t
        /\ prompt_locks' = [prompt_locks EXCEPT
                               ![c] = Lock(TRUE, Tail(@.waiters), FALSE)]
        /\ tasks' = [tasks EXCEPT ![t].pc = "working"]
        /\ cancel_flags' = [cancel_flags EXCEPT ![c] = "False"]
        /\ UNCHANGED <<active_tasks, awaiting>>
        /\ UNCHANGED <<handlerVars, managerVars, ioVars, uiVars>>

\* An exception leaves run_prompt outside its try statement (a reply that
\* fails, lines 843 and 853): the lock, if held, is released by "async with"
\* and the finally clause is not run.
reply_raises(t) ==
    LET c == tasks[t].chat_id
    IN  /\ tasks[t].pc \in {"notice", "working"}
        /\ ~tasks[t].cancelling
        /\ tasks' = [tasks EXCEPT ![t].pc = "done"]
        /\ prompt_locks' = IF tasks[t].pc = "working"
                           THEN [prompt_locks EXCEPT ![c] = Release(@)]
                           ELSE prompt_locks
        /\ UNCHANGED <<active_tasks, cancel_flags, awaiting>>
        /\ UNCHANGED <<handlerVars, managerVars, ioVars, uiVars>>

\* The task t leaves for pc with its buffer; through the finally clause
\* (lines 884-887) when pc is "finally": the chat's entries of _active_tasks
\* and _cancel_flags are popped and the "Working..." message is being edited.
Goes(t, task, pc, buffer) ==
    LET c == tasks[t].chat_id
    IN  /\ tasks' = [tasks EXCEPT ![t] =
                       [task EXCEPT !.pc = IF pc = "finally" THEN "cleanup"
                                                             ELSE pc,
                                    !.buffer = buffer]]
        /\ active_tasks' = IF pc = "finally"
                           THEN [active_tasks EXCEPT ![c] = 0]
                           ELSE active_tasks
        /\ cancel_flags' = IF pc = "finally"
                           THEN [cancel_flags EXCEPT ![c] = "absent"]
                           ELSE cancel_flags

\* lines 874-878, after the loop: what remains is sent unless cancelled
AfterLoop(chat_id, buffer) ==
    IF buffer > 0 /\ ~Flagged(chat_id) THEN "send" ELSE "finally"

\* lines 856-859: the "Working..." message is sent; the task iterates
\* send_prompt, which runs up to its first await.
working_sent(t) ==
    /\ tasks[t].pc = "working"
    /\ ~tasks[t].cancelling
    /\ SendPrompt(t, tasks[t].chat_id)
    /\ Goes(t, tasks[t], "stream", 0)
    /\ UNCHANGED <<prompt_locks, awaiting>>
    /\ UNCHANGED <<handlerVars, ioVars, uiVars>>

\* lines 856-859 and 881-883: the "Working..." message is sent; send_prompt
\* raises at its first step and the error is being reported.
working_sent_raises(t) ==
    /\ tasks[t].pc = "working"
    /\ ~tasks[t].cancelling
    /\ ImportFails(t, tasks[t].chat_id)
    /\ Goes(t, tasks[t], "error_reply", 0)
    /\ UNCHANGED <<prompt_locks, awaiting>>
    /\ UNCHANGED <<handlerVars, ioVars, uiVars>>

\* The generator of task t, suspended at its yield "at", is resumed
\* (manager.py, lines 570-588): after a text chunk it waits for the next
\* message; after the error chunk it closes the client and ends.
Resumed(t, at) ==
    IF at = "chunk"
    THEN Commit(sessions, active_sessions, session_objects, storage_data,
                [streams EXCEPT ![t].pc = "receive"], closing, Internal)
    ELSE Commit(sessions, active_sessions,
                [session_objects EXCEPT ![streams[t].session].sdk_client = FALSE],
                storage_data, [streams EXCEPT ![t] = NoStream], closing,
                Internal)

\* The generator of task t stays suspended at its yield "at".
StaysAt(t, at) ==
    Commit(sessions, active_sessions, session_objects, storage_data,
           [streams EXCEPT ![t].pc = at], closing, Internal)

\* lines 860-872: send_prompt yields a chunk ("chunk": a text block, "error":
\* the error text) to run_prompt, which breaks when the chat's flag is set,
\* sends a batch when the buffer is full, or asks for the next chunk.
Yielded(t, at) ==
    LET c == tasks[t].chat_id
        buffer == tasks[t].buffer + 1
    IN  IF Flagged(c)
        THEN StaysAt(t, at) /\ Goes(t, tasks[t], "finally", tasks[t].buffer)
        ELSE IF buffer >= BatchSize
        THEN StaysAt(t, at) /\ Goes(t, tasks[t], "batch", buffer)
        ELSE /\ Resumed(t, at)
             /\ Goes(t, tasks[t],
                     IF at = "chunk" THEN "stream" ELSE AfterLoop(c, buffer),
                     buffer)

\* manager.py lines 566-570 with bot.py lines 860-872: a text block arrives
run_prompt_chunk(t) ==
    /\ tasks[t].pc = "stream"
    /\ ~tasks[t].cancelling
    /\ streams[t].pc = "receive"
    /\ Yielded(t, "chunk")
    /\ UNCHANGED <<prompt_locks, awaiting>>
    /\ UNCHANGED <<handlerVars, ioVars, uiVars>>

\* manager.py lines 582-588 with bot.py lines 860-872: the client raises
run_prompt_error_chunk(t) ==
    /\ tasks[t].pc = "stream"
    /\ ~tasks[t].cancelling
    /\ streams[t].pc \in {"submit", "receive"}
    /\ Yielded(t, "error")
    /\ UNCHANGED <<prompt_locks, awaiting>>
    /\ UNCHANGED <<handlerVars, ioVars, uiVars>>

\* manager.py lines 579-580 with bot.py lines 874-878: the response is over
run_prompt_stream_ends(t) ==
    /\ tasks[t].pc = "stream"
    /\ ~tasks[t].cancelling
    /\ streams[t].pc = "receive"
    /\ Commit(sessions, active_sessions, session_objects,
              persist_session(storage_data, session_objects[streams[t].session]),
              [streams EXCEPT ![t] = NoStream], closing, Internal)
    /\ Goes(t, tasks[t], AfterLoop(tasks[t].chat_id, tasks[t].buffer),
            tasks[t].buffer)
    /\ UNCHANGED <<prompt_locks, awaiting>>
    /\ UNCHANGED <<handlerVars, ioVars, uiVars>>

\* lines 868-872: the batch is sent; the buffer is emptied and the next chunk
\* is asked for.
batch_sent(t) ==
    /\ tasks[t].pc = "batch"
    /\ ~tasks[t].cancelling
    /\ Resumed(t, streams[t].pc)
    /\ Goes(t, tasks[t],
            IF streams[t].pc = "chunk" THEN "stream"
            ELSE AfterLoop(tasks[t].chat_id, 0),
            0)
    /\ UNCHANGED <<prompt_locks, awaiting>>
    /\ UNCHANGED <<handlerVars, ioVars, uiVars>>

\* lines 874-878: what remained is sent
remaining_sent(t) ==
    /\ tasks[t].pc = "send"
    /\ ~tasks[t].cancelling
    /\ Goes(t, tasks[t], "finally", 0)
    /\ UNCHANGED <<prompt_locks, awaiting>>
    /\ UNCHANGED <<handlerVars, managerVars, ioVars, uiVars>>

\* lines 881-883: sending raises inside the try statement; the error is
\* being reported.
send_raises(t) ==
    /\ tasks[t].pc \in {"batch", "send"}
    /\ ~tasks[t].cancelling
    /\ Goes(t, tasks[t], "error_reply", tasks[t].buffer)
    /\ UNCHANGED <<prompt_locks, awaiting>>
    /\ UNCHANGED <<handlerVars, managerVars, ioVars, uiVars>>

\* lines 883-887: the error is reported, or reporting it raises
error_reported(t) ==
    /\ tasks[t].pc = "error_reply"
    /\ ~tasks[t].cancelling
    /\ Goes(t, tasks[t], "finally", 0)
    /\ UNCHANGED <<prompt_locks, awaiting>>
    /\ UNCHANGED <<handlerVars, managerVars, ioVars, uiVars>>

\* lines 888-893 and the end of "async with": the "Working..." message is
\* edited or deleted (a failure is suppressed) and the lock is released.
run_prompt_returns(t) ==
    /\ tasks[t].pc = "cleanup"
    /\ ~tasks[t].cancelling
    /\ tasks' = [tasks EXCEPT ![t].pc = "done"]
    /\ prompt_locks' = [prompt_locks EXCEPT ![tasks[t].chat_id] = Release(@)]
    /\ UNCHANGED <<active_tasks, cancel_flags, awaiting>>
    /\ UNCHANGED <<handlerVars, managerVars, ioVars, uiVars>>

\* task.cancel(): a CancelledError is on its way to the task
Cancel(t) == [tasks EXCEPT ![t].cancelling = TRUE]

\* handle_callback, lines 428-436: the Stop button
cancel_callback(chat_id) ==
    /\ awaiting = 0
    /\ IF Running(active_tasks[chat_id])
       THEN /\ cancel_flags' = [cancel_flags EXCEPT ![chat_id] = "True"]
            /\ tasks' = Cancel(active_tasks[chat_id])
       ELSE UNCHANGED <<cancel_flags, tasks>>
    /\ UNCHANGED <<prompt_locks, active_tasks, awaiting>>
    /\ UNCHANGED <<handlerVars, managerVars, ioVars, uiVars>>

\* _handle_cancel, lines 510-517: the cancel command, up to "await task"
handle_cancel(chat_id) ==
    /\ awaiting = 0
    /\ IF Running(active_tasks[chat_id])
       THEN /\ cancel_flags' = [cancel_flags EXCEPT ![chat_id] = "True"]
            /\ tasks' = Cancel(active_tasks[chat_id])
            /\ awaiting' = active_tasks[chat_id]
       ELSE UNCHANGED <<cancel_flags, tasks, awaiting>>
    /\ UNCHANGED <<prompt_locks, active_tasks>>
    /\ UNCHANGED <<handlerVars, managerVars, ioVars, uiVars>>

\* _handle_cancel, lines 517-520: the awaited task is done
handle_cancel_returns ==
    /\ awaiting # 0
    /\ ~restarting
    /\ tasks[awaiting].pc = "done"
    /\ active_tasks' = [active_tasks EXCEPT ![tasks[awaiting].chat_id] = 0]
    /\ cancel_flags' = [cancel_flags EXCEPT ![tasks[awaiting].chat_id] = "absent"]
    /\ awaiting' = 0
    /\ UNCHANGED <<tasks, prompt_locks>>
    /\ UNCHANGED <<handlerVars, managerVars, ioVars, uiVars>>

\* The CancelledError is thrown into task t where it is suspended.  Outside
\* the try statement (lines 842-855) it ends the task, releasing the lock if
\* held; inside (lines 858-893) it is caught, after it ended the generator
\* the task was waiting in, and the finally clause runs; in the finally
\* clause it ends the task, which releases the lock.
cancelled(t) ==
    LET c == tasks[t].chat_id
        task == [tasks[t] EXCEPT !.cancelling = FALSE]
    IN  /\ tasks[t].cancelling
        /\ tasks[t].pc # "done"
        /\ tasks[t].pc = "start" => Ready(t)
        /\ IF tasks[t].pc \in {"start", "notice"}
           THEN /\ tasks' = [tasks EXCEPT ![t] = [task EXCEPT !.pc = "done"]]
                /\ UNCHANGED <<prompt_locks, active_tasks, cancel_flags>>
                /\ UNCHANGED managerVars
           ELSE IF tasks[t].pc = "acquire"
           THEN /\ tasks' = [tasks EXCEPT ![t] = [task EXCEPT !.pc = "done"]]
                /\ prompt_locks' = [prompt_locks EXCEPT ![c] = Abandon(@, t)]
                /\ UNCHANGED <<active_tasks, cancel_flags>>
                /\ UNCHANGED managerVars
           ELSE IF tasks[t].pc \in {"working", "cleanup"}
           THEN /\ tasks' = [tasks EXCEPT ![t] = [task EXCEPT !.pc = "done"]]
                /\ prompt_locks' = [prompt_locks EXCEPT ![c] = Release(@)]
                /\ UNCHANGED <<active_tasks, cancel_flags>>
                /\ UNCHANGED managerVars
           ELSE IF tasks[t].pc = "stream"
           THEN /\ Goes(t, task, "finally", 0)
                /\ Commit(sessions, active_sessions, session_objects,
                          storage_data, [streams EXCEPT ![t] = NoStream],
                          closing, Internal)
                /\ UNCHANGED prompt_locks
           ELSE /\ Goes(t, task, "finally", 0)
                /\ UNCHANGED prompt_locks
                /\ UNCHANGED managerVars
        /\ UNCHANGED awaiting
        /\ UNCHANGED <<handlerVars, ioVars, uiVars>>

\* A generator whose consumer left the loop at a chunk is closed when it is
\* collected.
generator_collected(t) ==
    /\ tasks[t].pc \notin {"stream", "batch"}
    /\ stream_abandoned(t)

\* The generator of a task that iterates it goes on by itself.
generator_step(t) ==
    /\ tasks[t].pc = "stream"
    /\ ~tasks[t].cancelling
    /\ stream_submitted(t)

\* The steps of task t once its prompt is in and whatever it awaits answers.
TaskStep(t) ==
    \/ run_prompt(t)
    \/ queued_notice_sent(t)
    \/ lock_acquired(t)
    \/ working_sent(t)
    \/ run_prompt_chunk(t)
    \/ run_prompt_stream_ends(t)
    \/ batch_sent(t)
    \/ remaining_sent(t)
    \/ error_reported(t)
    \/ run_prompt_returns(t)
    \/ cancelled(t)
    \/ generator_step(t)

\* The bot under the prompts P and the cancels of the chats C.
BotStep(P, C) ==
    \/ \E t \in P, c \in C : handle_prompt(t, c)
    \/ \E c \in C : cancel_callback(c)
    \/ \E c \in C : handle_cancel(c)
    \/ \E t \in P : reply_raises(t)
    \/ \E t \in P : working_sent_raises(t)
    \/ \E t \in P : run_prompt_error_chunk(t)
    \/ \E t \in P : send_raises(t)
    \/ \E t \in P : generator_collected(t)
    \/ \E t \in P : TaskStep(t)
    \/ handle_cancel_returns

\* The bot under prompts and cancels of its chats.
BotNext == BotStep(Prompts, Chats)

\* Two prompts of one chat: one queues behind the other.
QueuePrompts == {1, 2}

QueueChats == {1}

QueueNext == BotStep(QueuePrompts, QueueChats)

\* SessionManager.generate_session_name: a name the chat has no session of
\* ("work" stands for "session-2").
GeneratedNames(chat_id) ==
    {n \in Names \ {"main"} :
        chat_id \in DOMAIN sessions => n \notin Keys(sessions[chat_id])}

\* The session commands of the bot, which PTB runs one update at a time:
\* _handle_new_session (line 470), _do_restart where no task is running
\* (lines 550-567), the sessions dialog of a chat without sessions (lines
\* 582-586), the new-session button (lines 664-665) and the switch button
\* (line 673).
session_command(chat_id) ==
    /\ awaiting = 0
    /\ \/ create_new(chat_id, None, None)
       \/ /\ ~Running(active_tasks[chat_id])
          /\ create_new_async(chat_id, None, None)
       \/ /\ list_sessions(chat_id) = <<>>
          /\ get_or_create(chat_id, None, None)
       \/ \E n \in GeneratedNames(chat_id) : create_new(chat_id, None, n)
       \/ \E n \in Names : switch_session(chat_id, n)

\* permission_callback (manager.py, lines 485-499): the client of the chat's
\* active session, once created, asks its session's PermissionHandler.  The
\* callback is the client's own call: cancelling the task that consumes
\* send_prompt does not reach it.
ClientRuns(chat_id) ==
    /\ manager_get(chat_id, None) # 0
    /\ session_objects[manager_get(chat_id, None)].sdk_client

\* The client asks while no call of request_permission is in flight.
client_asks(chat_id, tool_name, input_data) ==
    /\ ClientRuns(chat_id)
    /\ \A k \in Slots : calls[k] = NoCoroutine
    /\ request_permission(tool_name, input_data)

\* _handle_approve (lines 255-263) and the Approve button (lines 403-404),
\* which PTB runs one update at a time.
user_answers(chat_id) ==
    /\ awaiting = 0
    /\ manager_get(chat_id, None) # 0
    /\ approve

\* The steps of the request_permission call of slot k.
RequestStep(k) ==
    \/ notify_returns(k)
    \/ resume(k)
    \/ timer_fires(k)
    \/ timeout_resume(k)

\* Two prompts of a chat, its cancels, and the PermissionHandler of its
\* session.
CancelNext ==
    \/ QueueNext
    \/ \E c \in QueueChats, tc \in OtherCalls :
          client_asks(c, tc.tool_name, tc.input_data)
    \/ \E k \in Slots : RequestStep(k)
    \/ \E k \in Slots : notify_raises(k)
    \/ \E c \in QueueChats : user_answers(c)

CommandNext ==
    \/ QueueNext
    \/ \E c \in QueueChats : session_command(c)
    \/ \E r \in SessionRefs : close_client_task(r)

(***************************************************************************)
(* SessionStorage._load and _save (storage.py).  The file holds no JSON,   *)
(* or a JSON value; a JSON object is the sequence of its members, in the   *)
(* order json.load gives them to the loops; numbers, strings and null are  *)
(* the Python values json.load makes of them.  An operation that may raise *)
(* gives a Result: the exception's name, or None and the value.            *)
(***************************************************************************)
JObject(items) == [kind |-> "object", items |-> items]

\* a list none of whose elements is "cwd"
JArray == [kind |-> "array"]

JNumber(n) == [kind |-> "number", n |-> n]

JString(s) == [kind |-> "string", s |-> s]

JNull == [kind |-> "null"]

InvalidJson == [kind |-> "invalid"]

JsonFile(value) == [kind |-> "json", value |-> value]

Result(exc, value) == [exc |-> exc, value |-> value]

\* int(chat_id_str), line 143: the keys that are numerals, and their values
NumericKeys == {"1", "2", "01"}

int(chat_id_str) ==
    CASE chat_id_str = "1" -> 1
      [] chat_id_str = "01" -> 1
      [] chat_id_str = "2" -> 2

\* str(k), line 163
str(k) == CASE k = 1 -> "1" [] k = 2 -> "2"

\* json.load of a string, a number or null, and json.dump of it
py(value) ==
    CASE value.kind = "string" -> value.s
      [] value.kind = "number" -> value.n
      [] value.kind = "null" -> None

json_string(s) == IF s = None THEN JNull ELSE JString(s)

\* data.get(key, default) of a dict
dict_get(data, key, default) ==
    IF key \in Keys(data.items) THEN GetItem(data.items, key) ELSE default

\* StoredSession(chat_id, name, cwd, created_at, message_count,
\* claude_session_id)
StoredSessionAt(chat_id, name, cwd, created_at, message_count, claude_session_id) ==
    [chat_id |-> chat_id, name |-> name, cwd |-> cwd,
     created_at |-> created_at, message_count |-> message_count,
     claude_session_id |-> claude_session_id]

\* StoredSession.from_dict, lines 36-46, of a dict
StoredSession_from_dict(data) ==
    IF \E key \in {"chat_id", "cwd", "created_at", "message_count"} :
          key \notin Keys(data.items)
    THEN Result("KeyError", 0)
    ELSE Result(None,
                StoredSessionAt(py(GetItem(data.items, "chat_id")),
                                py(dict_get(data, "name", JString("main"))),
                                py(GetItem(data.items, "cwd")),
                                py(GetItem(data.items, "created_at")),
                                py(GetItem(data.items, "message_count")),
                                py(dict_get(data, "claude_session_id", JNull))))

\* StoredSession.to_dict, lines 32-34: asdict, the fields in their order
StoredSession_to_dict(session) ==
    JObject(<<Item("chat_id", JNumber(session.chat_id)),
              Item("name", JString(session.name)),
              Item("cwd", JString(session.cwd)),
              Item("created_at", JString(session.created_at)),
              Item("message_count", JNumber(session.message_count)),
              Item("claude_session_id",
                   json_string(session.claude_session_id))>>)

\* ChatStoredState.from_dict, lines 76-80: the loop over the sessions left;
\* s_data["chat_id"] = chat_id raises TypeError on what is no dict.
RECURSIVE from_dict_sessions(_, _, _)
from_dict_sessions(chat_id, items, loaded) ==
    IF items = <<>> THEN Result(None, loaded)
    ELSE LET name == Head(items).name
             s_data == Head(items).value
         IN  IF s_data.kind # "object" THEN Result("TypeError", 0)
             ELSE LET session ==
                         StoredSession_from_dict(
                            JObject(PutItem(s_data.items, "chat_id",
                                            JNumber(chat_id))))
                  IN  IF session.exc # None THEN session
                      ELSE from_dict_sessions(
                              chat_id, Tail(items),
                              PutItem(loaded, name, session.value))

\* ChatStoredState.from_dict, lines 68-84; data.get and .items() raise
\* AttributeError on what is no dict.
ChatStoredState_from_dict(chat_id, data) ==
    IF data.kind # "object" THEN Result("AttributeError", 0)
    ELSE LET stored == dict_get(data, "sessions", JObject(<<>>))
         IN  IF stored.kind # "object" THEN Result("AttributeError", 0)
             ELSE LET loaded == from_dict_sessions(chat_id, stored.items, <<>>)
                  IN  IF loaded.exc # None THEN loaded
                      ELSE Result(None,
                                  ChatStoredState(
                                     py(dict_get(data, "active_session",
                                                 JString("main"))),
                                     loaded.value))

\* ChatStoredState.to_dict, lines 61-66
ChatStoredState_to_dict(state) ==
    JObject(<<Item("active_session", JString(state.active_session)),
              Item("sessions",
                   JObject([i \in 1..Len(state.sessions) |->
                              Item(state.sessions[i].name,
                                   StoredSession_to_dict(
                                      state.sessions[i].value))]))>>)

\* _is_old_format, lines 106-112: "cwd" in data.  On a list it looks for an
\* element, on a string for a substring (of the strings here only "cwd" has
\* it), on a number or None it raises TypeError.
is_old_format(data) ==
    CASE data.kind = "object" -> Result(None, "cwd" \in Keys(data.items))
      [] data.kind = "array" -> Result(None, FALSE)
      [] data.kind = "string" -> Result(None, data.s = "cwd")
      [] OTHER -> Result("TypeError", FALSE)

\* A migration that keeps the name the old record has.
migrate_keeps_name(chat_id, old_data) ==
    IF old_data.kind # "object" THEN Result("TypeError", 0)
    ELSE LET session == StoredSession_from_dict(old_data)
         IN  IF session.exc # None THEN session
             ELSE Result(None,
                         ChatStoredState(session.value.name,
                                         <<Item(session.value.name,
                                                session.value)>>))

\* _migrate_old_format, lines 114-131; old_data["name"] = "main" raises
\* TypeError on a string.
migrate_old_format(chat_id, old_data) ==
    IF old_data.kind # "object" THEN Result("TypeError", 0)
    ELSE LET session ==
                StoredSession_from_dict(
                   JObject(PutItem(old_data.items, "name", JString("main"))))
         IN  IF session.exc # None THEN session
             ELSE Result(None,
                         ChatStoredState("main",
                                         <<Item("main", session.value)>>))

\* _load, lines 142-153: the loop over the records left of raw.items()
RECURSIVE load_records(_, _, _)
load_records(records, data, needs_save) ==
    IF records = <<>>
    THEN [exc |-> None, data |-> data, needs_save |-> needs_save]
    ELSE LET chat_id_str == Head(records).name
             chat_data == Head(records).value
         IN  IF chat_id_str \notin NumericKeys
             THEN [exc |-> "ValueError", data |-> data,
                   needs_save |-> needs_save]
             ELSE LET chat_id == int(chat_id_str)
                      old == is_old_format(chat_data)
                      state == IF old.exc # None THEN old
                               ELSE IF old.value
                               THEN migrate_old_format(chat_id, chat_data)
                               ELSE ChatStoredState_from_dict(chat_id,
                                                              chat_data)
                  IN  IF state.exc # None
                      THEN [exc |-> state.exc, data |-> data,
                            needs_save |-> needs_save]
                      ELSE load_records(Tail(records),
                                        SetItem(data, chat_id, state.value),
                                        needs_save \/ old.value)

\* _save, lines 161-165: the chats are written in the order of their ids.
RECURSIVE save_chats(_, _)
save_chats(data, chats) ==
    IF chats = {} THEN <<>>
    ELSE LET k == Min(chats)
         IN  <<Item(str(k), ChatStoredState_to_dict(data[k]))>>
                \o save_chats(data, chats \ {k})

save(data) == JsonFile(JObject(save_chats(data, DOMAIN data)))

\* except (json.JSONDecodeError, KeyError, ValueError), line 157
Caught == {"JSONDecodeError", "KeyError", "ValueError"}

\* json.load(f), line 140
json_load(file) ==
    IF file.kind = "invalid" THEN Result("JSONDecodeError", 0)
    ELSE Result(None, file.value)

\* _load, lines 138-153: the try block; raw.items() raises AttributeError on
\* what is no dict.
load_try(file) ==
    LET raw == json_load(file)
    IN  IF raw.exc # None
        THEN [exc |-> raw.exc, data |-> EmptyDict, needs_save |-> FALSE]
        ELSE IF raw.value.kind # "object"
        THEN [exc |-> "AttributeError", data |-> EmptyDict,
              needs_save |-> FALSE]
        ELSE load_records(raw.value.items, EmptyDict, FALSE)

\* _load, lines 133-159, on the file: the exception that leaves it (None if
\* none does), _data, the file afterwards and whether _load saved it.
load(file) ==
    IF file.kind = "absent"
    THEN [exc |-> None, data |-> EmptyDict, disk |-> file, saved |-> FALSE]
    ELSE LET r == load_try(file)
         IN  IF r.exc \in Caught
             THEN [exc |-> None, data |-> EmptyDict, disk |-> file,
                   saved |-> FALSE]
             ELSE IF r.exc # None
             THEN [exc |-> r.exc, data |-> r.data, disk |-> file,
                   saved |-> FALSE]
             ELSE [exc |-> None, data |-> r.data,
                   disk |-> IF r.needs_save THEN save(r.data) ELSE file,
                   saved |-> r.needs_save]

\* SessionStorage(path), lines 96-104: the store is constructed on the file,
\* at the start of the program and at every restart.  It is no store if
\* _load raises; the call is recorded with whether _load saved the file.
SessionStorage ==
    /\ \E r \in {load(disk)} :
          /\ storage_data' = IF r.exc = None THEN r.data ELSE EmptyDict
          /\ disk' = r.disk
          /\ returned' = Returned(IF r.saved THEN "SessionStorage_saved"
                                              ELSE "SessionStorage",
                                   0, 0, r.exc = None)
    /\ UNCHANGED <<sessions, active_sessions, session_objects, storage,
                   streams, closing, parsed>>
    /\ UNCHANGED <<handlerVars, botVars>>

\* The files the store is constructed on: up to MaxRecords records under
\* keys that are numerals or not, each a record the program wrote (in the
\* old format or in the new one) or something else.
MaxRecords == 2

FileKeys == NumericKeys \cup {"x"}

OldRecord(chat_id) ==
    <<Item("chat_id", JNumber(chat_id)), Item("cwd", JString("/x")),
      Item("created_at", JString("t")), Item("message_count", JNumber(2)),
      Item("claude_session_id", JString("s"))>>

\* Records of the old format: with and without a claude_session_id, and
\* with a name.
OldRecords(chat_id) ==
    {JObject(OldRecord(chat_id)),
     JObject(SubSeq(OldRecord(chat_id), 1, 4)),
     JObject(OldRecord(chat_id) \o <<Item("name", JString("work"))>>)}

NewSession(chat_id, name) ==
    StoredSession_to_dict(StoredSessionAt(chat_id, name, "/y", "t", 1, None))

\* Records of the new format, as ChatStoredState.to_dict writes them.
NewRecords(chat_id) ==
    {JObject(<<Item("active_session", JString(a)),
               Item("sessions", JObject(ss))>>) :
        a \in Names,
        ss \in {<<Item("main", NewSession(chat_id, "main"))>>,
                <<Item("main", NewSession(chat_id, "main")),
                  Item("work", NewSession(chat_id, "work"))>>}}

\* Records with missing fields and values of an unexpected shape.
OtherRecords(chat_id) ==
    {JObject(SubSeq(OldRecord(chat_id), 1, 3)),
     JObject(<<Item("active_session", JString("main")),
               Item("sessions",
                    JObject(<<Item("main",
                                   JObject(<<Item("created_at",
                                                  JString("t"))>>))>>))>>),
     JObject(<<Item("active_session", JString("main")),
               Item("sessions", JArray)>>),
     JObject(<<Item("active_session", JString("main")),
               Item("sessions",
                    JObject(<<Item("main", JString("/x"))>>))>>),
     JArray, JNumber(5), JNull, JString("cwd")}

FileRecords ==
    {Item(key, value) :
        key \in FileKeys,
        value \in OldRecords(1) \cup OldRecords(2) \cup NewRecords(1)
                     \cup NewRecords(2) \cup OtherRecords(1)}

Files ==
    {NoFile, InvalidJson, JsonFile(JArray), JsonFile(JNumber(5))}
    \cup {JsonFile(JObject(records)) :
            records \in {rs \in UNION {[1..n -> FileRecords] : n \in 0..MaxRecords} :
                            \A i \in DOMAIN rs, j \in DOMAIN rs :
                               i # j => rs[i].name # rs[j].name}}

(***************************************************************************)
(* The command router (router.py).  A text is the sequence of its          *)
(* characters; Optional[str] is the sequence of at most one text.          *)
(***************************************************************************)
UpperCase == <<"A", "B", "C", "D", "E", "F", "G", "H", "I", "J", "K", "L", "M", "N", "O", "P", "Q", "R", "S", "T", "U", "V", "W", "X", "Y", "Z">>

LowerCase == <<"a", "b", "c", "d", "e", "f", "g", "h", "i", "j", "k", "l", "m", "n", "o", "p", "q", "r", "s", "t", "u", "v", "w", "x", "y", "z">>

\* str.lower(), on ASCII
lower_char(c) ==
    IF \E i \in DOMAIN UpperCase : UpperCase[i] = c
    THEN LowerCase[CHOOSE i \in DOMAIN UpperCase : UpperCase[i] = c]
    ELSE c

lower(s) == [i \in 1..Len(s) |-> lower_char(s[i])]

\* str.rstrip(chars)
RECURSIVE rstrip_chars(_, _)
rstrip_chars(s, chars) ==
    IF s # <<>> /\ s[Len(s)] \in chars
    THEN rstrip_chars(SubSeq(s, 1, Len(s) - 1), chars)
    ELSE s

\* sub in s
str_in(sub, s) ==
    \E i \in 1..(Len(s) + 1) :
        /\ i + Len(sub) - 1 <= Len(s)
        /\ SubSeq(s, i, i + Len(sub) - 1) = sub

\* s[n:]
slice_from(s, n) == SubSeq(s, n + 1, Len(s))

\* s.split(sep, 1) for a one-character sep that occurs in s
split_once(s, sep) ==
    LET i == Min({k \in 1..Len(s) : s[k] = sep})
    IN  <<SubSeq(s, 1, i - 1), SubSeq(s, i + 1, Len(s))>>

\* APPROVE_KEYWORDS, lines 44-46
APPROVE_KEYWORDS ==
    {<<"y", "e", "s">>,
     <<"a", "p", "p", "r", "o", "v", "e">>,
     <<"a", "p", "p", "r", "o", "v", "e", "d">>,
     <<"a", "l", "l", "o", "w">>,
     <<"o", "k">>,
     <<"o", "k", "a", "y">>,
     <<"g", "o", " ", "a", "h", "e", "a", "d">>,
     <<"y", "e", "p">>}

\* REJECT_KEYWORDS, lines 47-49
REJECT_KEYWORDS ==
    {<<"n", "o">>,
     <<"r", "e", "j", "e", "c", "t">>,
     <<"r", "e", "j", "e", "c", "t", "e", "d">>,
     <<"s", "t", "o", "p">>,
     <<"d", "e", "n", "y">>,
     <<"d", "e", "n", "i", "e", "d">>,
     <<"c", "a", "n", "c", "e", "l">>,
     <<"n", "o", "p", "e">>}

\* STATUS_KEYWORDS, lines 50-50
STATUS_KEYWORDS ==
    {<<"s", "t", "a", "t", "u", "s">>,
     <<"w", "h", "a", "t", "'", "s", " ", "h", "a", "p", "p", "e", "n", "i", "n", "g">>,
     <<"p", "r", "o", "g", "r", "e", "s", "s">>,
     <<"s", "t", "a", "t", "e">>}

\* NEW_SESSION_KEYWORDS, lines 51-53
NEW_SESSION_KEYWORDS ==
    {<<"n", "e", "w", " ", "s", "e", "s", "s", "i", "o", "n">>,
     <<"f", "r", "e", "s", "h", " ", "s", "e", "s", "s", "i", "o", "n">>,
     <<"s", "t", "a", "r", "t", " ", "o", "v", "e", "r">>,
     <<"r", "e", "s", "e", "t">>}

\* CONTINUE_SESSION_KEYWORDS, lines 54-62
CONTINUE_SESSION_KEYWORDS ==
    {<<"c", "o", "n", "t", "i", "n", "u", "e">>,
     <<"r", "e", "s", "u", "m", "e">>,
     <<"c", "o", "n", "t", "i", "n", "u", "e", " ", "s", "e", "s", "s", "i", "o", "n">>,
     <<"r", "e", "s", "u", "m", "e", " ", "s", "e", "s", "s", "i", "o", "n">>,
     <<"p", "i", "c", "k", " ", "u", "p", " ", "w", "h", "e", "r", "e", " ", "w", "e", " ", "l", "e", "f", "t", " ", "o", "f", "f">>}

\* STICKY_APPROVE_KEYWORDS, lines 63-71
STICKY_APPROVE_KEYWORDS ==
    {<<"a", "l", "w", "a", "y", "s", " ", "a", "p", "p", "r", "o", "v", "e">>,
     <<"s", "t", "i", "c", "k", "y", " ", "y", "e", "s">>,
     <<"r", "e", "m", "e", "m", "b", "e", "r", " ", "y", "e", "s">>,
     <<"a", "l", "w", "a", "y", "s", " ", "y", "e", "s">>,
     <<"a", "l", "w", "a", "y", "s", " ", "a", "l", "l", "o", "w">>}

\* CLEAR_STICKY_KEYWORDS, lines 72-78
CLEAR_STICKY_KEYWORDS ==
    {<<"c", "l", "e", "a", "r", " ", "s", "t", "i", "c", "k", "y">>,
     <<"c", "l", "e", "a", "r", " ", "a", "p", "p", "r", "o", "v", "a", "l", "s">>,
     <<"f", "o", "r", "g", "e", "t", " ", "a", "p", "p", "r", "o", "v", "a", "l", "s">>}

\* LIST_APPROVALS_KEYWORDS, lines 79-87
LIST_APPROVALS_KEYWORDS ==
    {<<"l", "i", "s", "t", " ", "a", "p", "p", "r", "o", "v", "a", "l", "s">>,
     <<"s", "h", "o", "w", " ", "a", "p", "p", "r", "o", "v", "a", "l", "s">>,
     <<"a", "p", "p", "r", "o", "v", "a", "l", "s">>,
     <<"w", "h", "a", "t", "'", "s", " ", "a", "p", "p", "r", "o", "v", "e", "d">>,
     <<"w", "h", "a", "t", "s", " ", "a", "p", "p", "r", "o", "v", "e", "d">>}

\* CANCEL_KEYWORDS, lines 88-99
CANCEL_KEYWORDS ==
    {<<"e", "s", "c", "a", "p", "e">>,
     <<"a", "b", "o", "r", "t">>,
     <<"i", "n", "t", "e", "r", "r", "u", "p", "t">>,
     <<"s", "t", "o", "p", " ", "t", "a", "s", "k">>,
     <<"c", "a", "n", "c", "e", "l", " ", "t", "a", "s", "k">>,
     <<"s", "t", "o", "p", " ", "i", "t">>,
     <<"f", "e", "r", "m", "a", "t", "i">>,
     <<"b", "a", "s", "t", "a">>}

\* RESTART_KEYWORDS, lines 100-107
RESTART_KEYWORDS ==
    {<<"r", "e", "s", "t", "a", "r", "t">>,
     <<"r", "e", "s", "t", "a", "r", "t", " ", "s", "e", "s", "s", "i", "o", "n">>,
     <<"r", "i", "a", "v", "v", "i", "a">>,
     <<"r", "i", "c", "o", "m", "i", "n", "c", "i", "a">>}

\* SESSIONS_KEYWORDS, lines 108-115
SESSIONS_KEYWORDS ==
    {<<"s", "e", "s", "s", "i", "o", "n", "s">>,
     <<"s", "h", "o", "w", " ", "s", "e", "s", "s", "i", "o", "n", "s">>,
     <<"l", "i", "s", "t", " ", "s", "e", "s", "s", "i", "o", "n", "s">>,
     <<"m", "y", " ", "s", "e", "s", "s", "i", "o", "n", "s">>}

\* for keyword in KEYWORDS: if keyword in lower_text
any_keyword_in(keywords, lower_text) ==
    \E keyword \in keywords : str_in(keyword, lower_text)

NoProject == <<>>

\* ParsedCommand(command_type, text, project)
ParsedCommand(command_type, text, project) ==
    [command_type |-> command_type, text |-> text, project |-> project]

\* No return statement was reached.
FallsThrough == ParsedCommand(None, <<>>, NoProject)

\* for name in projects: if name in part or part in name: the first such
\* name's place in the dict, 0 if there is none
first_partial_match(projects, part) ==
    LET found == {i \in 1..Len(projects) :
                     str_in(projects[i], part) \/ str_in(part, projects[i])}
    IN  IF found = {} THEN 0 ELSE Min(found)

\* lines 185-194: "on PROJECT: command"
switch_with_command(text, lower_text, projects) ==
    IF startswith(lower_text, <<"o", "n", " ">>) /\ str_in(<<":">>, lower_text)
    THEN LET parts == split_once(lower_text, ":")
             project_part == strip(slice_from(parts[1], 3))
             i == first_partial_match(projects, project_part)
         IN  IF i # 0
             THEN ParsedCommand("SWITCH_PROJECT", strip(parts[2]),
                                <<projects[i]>>)
             ELSE FallsThrough
    ELSE FallsThrough

SwitchPrefixes == <<<<"w", "o", "r", "k", " ", "o", "n", " ">>,
                    <<"s", "w", "i", "t", "c", "h", " ", "t", "o", " ">>,
                    <<"o", "n", " ">>>>

\* lines 196-212: the loop over the prefixes, from the n-th on
RECURSIVE switch_by_prefix(_, _, _, _)
switch_by_prefix(text, lower_text, projects, n) ==
    IF n > Len(SwitchPrefixes) THEN FallsThrough
    ELSE LET prefix == SwitchPrefixes[n]
             project_name ==
                rstrip_chars(strip(slice_from(lower_text, Len(prefix))),
                             {":"})
             i == first_partial_match(projects, project_name)
         IN  IF ~startswith(lower_text, prefix)
             THEN switch_by_prefix(text, lower_text, projects, n + 1)
             ELSE IF \E k \in 1..Len(projects) : projects[k] = project_name
             THEN ParsedCommand("SWITCH_PROJECT", text, <<project_name>>)
             ELSE IF i # 0
             THEN ParsedCommand("SWITCH_PROJECT", text, <<projects[i]>>)
             ELSE switch_by_prefix(text, lower_text, projects, n + 1)

\* lines 183-212: if projects
switch_project(text, lower_text, projects) ==
    IF projects = <<>> THEN FallsThrough
    ELSE LET command == switch_with_command(text, lower_text, projects)
         IN  IF command # FallsThrough THEN command
             ELSE switch_by_prefix(text, lower_text, projects, 1)

\* lines 215-220: "skill X" -> "/X"
skill(lower_text) ==
    IF startswith(lower_text, <<"s", "k", "i", "l", "l", " ">>)
       /\ strip(slice_from(lower_text, 6)) # <<>>
    THEN ParsedCommand("PROMPT", <<"/">> \o strip(slice_from(lower_text, 6)),
                       NoProject)
    ELSE FallsThrough

\* A restart keyword somewhere in the text.
is_restart_substring(lower_text) == any_keyword_in(RESTART_KEYWORDS, lower_text)

\* line 174: exact match to avoid false positives
is_restart(lower_text) == lower_text \in RESTART_KEYWORDS

\* parse_command, lines 118-223
parse_command(text, projects) ==
    LET lower_text == rstrip_chars(strip(lower(text)), {".", ",", "!", "?"})
    IN  IF lower_text \in APPROVE_KEYWORDS
        THEN ParsedCommand("APPROVE", text, NoProject)
        ELSE IF lower_text \in REJECT_KEYWORDS
        THEN ParsedCommand("REJECT", text, NoProject)
        ELSE IF any_keyword_in(STATUS_KEYWORDS, lower_text)
        THEN ParsedCommand("STATUS", text, NoProject)
        ELSE IF any_keyword_in(NEW_SESSION_KEYWORDS, lower_text)
        THEN ParsedCommand("NEW_SESSION", text, NoProject)
        ELSE IF any_keyword_in(CONTINUE_SESSION_KEYWORDS, lower_text)
        THEN ParsedCommand("CONTINUE_SESSION", text, NoProject)
        ELSE IF any_keyword_in(STICKY_APPROVE_KEYWORDS, lower_text)
        THEN ParsedCommand("STICKY_APPROVE", text, NoProject)
        ELSE IF any_keyword_in(CLEAR_STICKY_KEYWORDS, lower_text)
        THEN ParsedCommand("CLEAR_STICKY", text, NoProject)
        ELSE IF any_keyword_in(LIST_APPROVALS_KEYWORDS, lower_text)
        THEN ParsedCommand("LIST_APPROVALS", text, NoProject)
        ELSE IF any_keyword_in(CANCEL_KEYWORDS, lower_text)
        THEN ParsedCommand("CANCEL", text, NoProject)
        ELSE IF is_restart(lower_text)
        THEN ParsedCommand("RESTART", text, NoProject)
        ELSE IF any_keyword_in(SESSIONS_KEYWORDS, lower_text)
        THEN ParsedCommand("SESSIONS", text, NoProject)
        ELSE IF switch_project(text, lower_text, projects) # FallsThrough
        THEN switch_project(text, lower_text, projects)
        ELSE IF skill(lower_text) # FallsThrough
        THEN skill(lower_text)
        ELSE ParsedCommand("PROMPT", text, NoProject)

\* A call of parse_command to be made, and the call made with its result.
Call(text, projects) ==
    [text |-> text, projects |-> projects, command_type |-> None,
     command_text |-> <<>>, project |-> NoProject]

Called(text, projects, command) ==
    [text |-> text, projects |-> projects,
     command_type |-> command.command_type, command_text |-> command.text,
     project |-> command.project]

\* _handle_transcription (bot.py, line 226): the text of a message is parsed.
parse ==
    /\ parsed.command_type = None
    /\ parsed' = Called(parsed.text, parsed.projects,
                        parse_command(parsed.text, parsed.projects))
    /\ UNCHANGED disk
    /\ UNCHANGED <<handlerVars, managerVars, botVars>>

\* The texts parsed: the keywords, some as a message would have them (with a
\* capital, blanks around and a mark at the end), two phrases in a row, and
\* other texts.
Keywords ==
    UNION {APPROVE_KEYWORDS, REJECT_KEYWORDS, STATUS_KEYWORDS,
           NEW_SESSION_KEYWORDS, CONTINUE_SESSION_KEYWORDS,
           STICKY_APPROVE_KEYWORDS, CLEAR_STICKY_KEYWORDS,
           LIST_APPROVALS_KEYWORDS, CANCEL_KEYWORDS, RESTART_KEYWORDS,
           SESSIONS_KEYWORDS}

Phrases ==
    {<<"y", "e", "s">>,
     <<"s", "t", "o", "p">>,
     <<"c", "a", "n", "c", "e", "l">>,
     <<"s", "t", "a", "t", "u", "s">>,
     <<"r", "e", "s", "e", "t">>,
     <<"c", "o", "n", "t", "i", "n", "u", "e">>,
     <<"a", "l", "w", "a", "y", "s", " ", "y", "e", "s">>,
     <<"c", "l", "e", "a", "r", " ", "s", "t", "i", "c", "k", "y">>,
     <<"a", "p", "p", "r", "o", "v", "a", "l", "s">>,
     <<"s", "t", "o", "p", " ", "i", "t">>,
     <<"c", "a", "n", "c", "e", "l", " ", "t", "a", "s", "k">>,
     <<"r", "e", "s", "t", "a", "r", "t">>,
     <<"s", "e", "s", "s", "i", "o", "n", "s">>,
     <<"o", "n", " ", "a", "p", "i">>,
     <<"w", "o", "r", "k", " ", "o", "n", " ", "w", "e", "b">>,
     <<"s", "k", "i", "l", "l", " ", "f", "o", "o">>,
     <<"h", "e", "l", "l", "o">>}

OtherTexts ==
    {<<>>,
     <<" ", " ">>,
     <<"s", "k", "i", "l", "l">>,
     <<"s", "k", "i", "l", "l", " ">>,
     <<"S", "k", "i", "l", "l", " ", " ", "F", "o", "o", ".">>,
     <<"o", "n", " ", "a", "p", "i", ":", " ", "R", "u", "n", " ", "t", "e", "s", "t", "s">>,
     <<"O", "n", " ", "w", "e", "b", " ", ":", " ", "s", "t", "a", "t", "u", "s">>,
     <<"o", "n", " ", ":", " ", "h", "e", "l", "l", "o">>,
     <<"o", "n", " ", "n", "o", "t", "h", "i", "n", "g", ":", " ", "h", "e", "l", "l", "o">>,
     <<"s", "w", "i", "t", "c", "h", " ", "t", "o", " ", "a", "p", "i", ":">>,
     <<"s", "w", "i", "t", "c", "h", " ", "t", "o", " ", "a", "p">>,
     <<"w", "o", "r", "k", " ", "o", "n", " ", "t", "h", "e", " ", "w", "e", "b", " ", "a", "p", "p">>,
     <<"w", "o", "r", "k", " ", "o", "n", " ", "n", "o", "t", "h", "i", "n", "g">>,
     <<"o", "n", " ", "a", "p", "i", "a", "r", "y">>,
     <<"y", "e", "s", " ", ".">>,
     <<"n", "o", " ", "w", "a", "y">>,
     <<"R", "e", "s", "t", "a", "r", "t", "!">>,
     <<"r", "e", "s", "t", "a", "r", "t", " ", "n", "o", "w">>,
     <<"S", "T", "O", "P">>,
     <<"C", "a", "n", "c", "e", "l", ".">>}

upper_char(c) ==
    IF \E i \in DOMAIN LowerCase : LowerCase[i] = c
    THEN UpperCase[CHOOSE i \in DOMAIN LowerCase : LowerCase[i] = c]
    ELSE c

AsMessage(s) == <<" ", upper_char(s[1])>> \o Tail(s) \o <<"!", " ">>

Texts ==
    Keywords
    \cup {AsMessage(s) : s \in Keywords}
    \cup {p \o <<" ">> \o r : p \in Phrases, r \in Phrases}
    \cup OtherTexts

\* settings.projects: the names, in the order of the dict
ProjectArgs == {<<>>, <<<<"a", "p", "i">>, <<"w", "e", "b">>>>}

(***************************************************************************)
(* The names of new sessions (manager.py, lines 396-412).                  *)
(***************************************************************************)
\* f"session-{counter}"
session_n(counter) ==
    <<"session-1", "session-2", "session-3", "session-4", "session-5",
      "session-6">>[counter]

\* while f"session-{counter}" in existing: counter += 1
RECURSIVE first_unused(_, _)
first_unused(existing, counter) ==
    IF session_n(counter) \in existing
    THEN first_unused(existing, counter + 1)
    ELSE session_n(counter)

\* The count from 1.
GenerateFromOne(chat_id) ==
    IF chat_id \notin DOMAIN sessions THEN "session-1"
    ELSE first_unused(Keys(sessions[chat_id]), 1)

\* The name generate_session_name returns.
GenerateSessionName(chat_id) ==
    IF chat_id \notin DOMAIN sessions THEN "session-2"
    ELSE first_unused(Keys(sessions[chat_id]), 2)

\* SessionManager.generate_session_name
generate_session_name(chat_id) ==
    /\ returned' = [op |-> "generate_session_name", chat_id |-> chat_id,
                    session |-> 0, ok |-> TRUE,
                    name |-> GenerateSessionName(chat_id)]
    /\ UNCHANGED <<sessions, active_sessions, session_objects, storage,
                   storage_data, streams, closing>>
    /\ UNCHANGED <<handlerVars, botVars, ioVars>>

\* _handle_session_new_callback, lines 662-665
handle_session_new_callback(chat_id) ==
    create_new(chat_id, None, GenerateSessionName(chat_id))

\* The names sessions are created under.
NumberedNames == {"main", "session-2", "session-3", "session-4"}

NameNext ==
    \/ \E c \in RegistryChats, n \in NumberedNames \cup {None} :
          create_new(c, None, n)
    \/ \E c \in RegistryChats, n \in NumberedNames : close_session(c, n)
    \/ \E c \in RegistryChats : generate_session_name(c)
    \/ \E c \in RegistryChats : handle_session_new_callback(c)

(***************************************************************************)
(* The operations of the SessionStorage called on the store itself         *)
(* (storage.py, lines 207-306); each ends with _save.                      *)
(***************************************************************************)
\* The record of a call on the store: op, its chat_id, the name it was given
\* and what it returned (TRUE for save_session, which returns None).
StoreReturned(op, chat_id, name, ok) ==
    [op |-> op, chat_id |-> chat_id, session |-> 0, ok |-> ok, name |-> name]

\* The call leaves _data as data; it ends with _save if saved.
StoreCall(data, saved, ret) ==
    /\ storage_data' = data
    /\ disk' = IF saved THEN save(data) ELSE disk
    /\ returned' = ret
    /\ UNCHANGED <<sessions, active_sessions, session_objects, storage,
                   streams, closing, parsed>>

\* SessionStorage.save_session, lines 207-220
save_session(stored) ==
    /\ StoreCall(storage_save_session(storage_data, stored), TRUE,
                 StoreReturned("save_session", stored.chat_id, stored.name,
                               TRUE))
    /\ UNCHANGED <<handlerVars, botVars>>

\* SessionStorage.set_active_session, lines 222-237
set_active_session(chat_id, name) ==
    /\ LET found == /\ chat_id \in DOMAIN storage_data
                    /\ name \in Keys(storage_data[chat_id].sessions)
       IN  StoreCall(storage_set_active_session(storage_data, chat_id, name),
                     found,
                     StoreReturned("set_active_session", chat_id, name, found))
    /\ UNCHANGED <<handlerVars, botVars>>

\* SessionStorage.delete_session, lines 239-263
delete_session(chat_id, name) ==
    /\ LET found == /\ chat_id \in DOMAIN storage_data
                    /\ name \in Keys(storage_data[chat_id].sessions)
       IN  StoreCall(storage_delete_session(storage_data, chat_id, name),
                     found,
                     StoreReturned("delete_session", chat_id, name, found))
    /\ UNCHANGED <<handlerVars, botVars>>

\* SessionStorage.rename_session, lines 265-291
store_rename_session(chat_id, old_name, new_name) ==
    /\ LET found == /\ chat_id \in DOMAIN storage_data
                    /\ old_name \in Keys(storage_data[chat_id].sessions)
                    /\ new_name \notin Keys(storage_data[chat_id].sessions)
       IN  StoreCall(storage_rename_session(storage_data, chat_id, old_name,
                                            new_name),
                     found,
                     StoreReturned("rename_session", chat_id, old_name, found))
    /\ UNCHANGED <<handlerVars, botVars>>

\* SessionStorage.delete_chat, lines 293-306
delete_chat(chat_id) ==
    /\ LET found == chat_id \in DOMAIN storage_data
       IN  StoreCall(IF found THEN DelItem(storage_data, chat_id)
                              ELSE storage_data,
                     found,
                     StoreReturned("delete_chat", chat_id, None, found))
    /\ UNCHANGED <<handlerVars, botVars>>

\* The sessions saved: of both chats, under both names, new and used.
StoredSessions ==
    {StoredSessionAt(c, n, "/x", "t", m, None) :
        c \in Chats, n \in Names, m \in 0..MaxMessages}

StoreNext ==
    \/ \E stored \in StoredSessions : save_session(stored)
    \/ \E c \in Chats, n \in Names : set_active_session(c, n)
    \/ \E c \in Chats, n \in Names : delete_session(c, n)
    \/ \E c \in Chats, o \in Names, n \in Names : store_rename_session(c, o, n)
    \/ \E c \in Chats : delete_chat(c)

(***************************************************************************)
(* The PermissionHandler of each Session: the requests of the session's    *)
(* client (manager.py, lines 485-499) and the bot's handlers, which act on *)
(* the handler of the chat's active session (bot.py, lines 255-307).       *)
(***************************************************************************)
\* PermissionHandler._check_sticky_approval on a list of approvals
any_matches(approvals, tool_name, input_data) ==
    \E i \in 1..Len(approvals) : matches(approvals[i], tool_name, input_data)

\* A call on the handler of Session r leaves the Session objects as objs.
HandlerCall(op, chat_id, r, ok, objs) ==
    Commit(sessions, active_sessions, objs, storage_data, streams, closing,
           Returned(op, chat_id, r, ok))

\* "No active session.": the handler found no Session.
NoActiveSession(op, chat_id) ==
    /\ returned' = Returned(op, chat_id, 0, FALSE)
    /\ UNCHANGED <<sessions, active_sessions, session_objects, storage,
                   storage_data, streams, closing>>

\* One handler for the sessions of a chat: the requests of all of them are
\* resolved.
ResolveChat(objs, r) ==
    [q \in DOMAIN objs |->
       IF objs[q].chat_id = objs[r].chat_id
       THEN [objs[q] EXCEPT !.has_pending = FALSE, !.pending_tool = None,
                            !.sticky_approvals = <<>>]
       ELSE objs[q]]

\* The pending request of Session r is resolved: the event is set and
\* request_permission, resumed, clears it (permissions.py, lines 265-269).
Resolve(objs, r) ==
    [objs EXCEPT ![r].has_pending = FALSE, ![r].pending_tool = None]

\* permission_callback, lines 485-499: the client of the Session that the
\* generator g holds asks, one call at a time; request_permission
\* (permissions.py, lines 235-266) returns at once for a safe call and for
\* one that a sticky approval of this handler matches (ok), and else stores
\* the request.
session_request_permission(g, tool_name, input_data) ==
    /\ streams[g].pc = "receive"
    /\ ~session_objects[streams[g].session].has_pending
    /\ LET r == streams[g].session
           session == session_objects[r]
       IN  IF \/ is_safe_tool_call(tool_name, input_data)
              \/ any_matches(session.sticky_approvals, tool_name, input_data)
           THEN HandlerCall("request_permission", session.chat_id, r, TRUE,
                            session_objects)
           ELSE HandlerCall("request_permission", session.chat_id, r, FALSE,
                            [session_objects EXCEPT
                               ![r].has_pending = TRUE,
                               ![r].pending_tool = tool_name])
    /\ UNCHANGED <<handlerVars, botVars, ioVars>>

\* permissions.py, lines 270-273: the request of the Session r times out.
session_request_times_out(r) ==
    /\ session_objects[r].has_pending
    /\ HandlerCall("timeout", session_objects[r].chat_id, r, TRUE,
                   Resolve(session_objects, r))
    /\ UNCHANGED <<handlerVars, botVars, ioVars>>

\* session.permission_handler.approve() or .deny(): True if a request was
\* pending.
ResolveOn(op, chat_id, r) ==
    IF r = 0 THEN NoActiveSession(op, chat_id)
    ELSE IF ~session_objects[r].has_pending
    THEN HandlerCall(op, chat_id, r, FALSE, session_objects)
    ELSE HandlerCall(op, chat_id, r, TRUE, Resolve(session_objects, r))

\* _handle_approve, lines 255-263, and the Approve button, lines 403-407
handle_approve(chat_id) ==
    /\ awaiting = 0
    /\ ResolveOn("approve", chat_id, manager_get(chat_id, None))
    /\ UNCHANGED <<handlerVars, botVars, ioVars>>

\* _handle_reject, lines 265-281, and the Reject button, lines 416-427
handle_reject(chat_id) ==
    /\ awaiting = 0
    /\ ResolveOn("deny", chat_id, manager_get(chat_id, None))
    /\ UNCHANGED <<handlerVars, botVars, ioVars>>

\* _handle_sticky_approve, lines 283-296, and the Always button, lines
\* 408-415; sticky_approve is permissions.py, lines 304-331.
handle_sticky_approve(chat_id) ==
    /\ awaiting = 0
    /\ LET r == manager_get(chat_id, None)
       IN  IF r = 0 THEN NoActiveSession("sticky_approve", chat_id)
           ELSE IF ~session_objects[r].has_pending
           THEN HandlerCall("sticky_approve", chat_id, r, FALSE,
                            session_objects)
           ELSE LET tool_name == session_objects[r].pending_tool
                    sticky == StickyApproval(
                                  tool_name, None,
                                  get(TOOL_FIELD_NAMES, tool_name, None))
                IN  HandlerCall("sticky_approve", chat_id, r, TRUE,
                                [Resolve(session_objects, r) EXCEPT
                                   ![r].sticky_approvals = Append(@, sticky)])
    /\ UNCHANGED <<handlerVars, botVars, ioVars>>

\* _handle_clear_sticky, lines 298-307, and the revoke_all button
handle_clear_sticky(chat_id) ==
    /\ awaiting = 0
    /\ LET r == manager_get(chat_id, None)
       IN  IF r = 0 THEN NoActiveSession("clear_sticky_approvals", chat_id)
           ELSE HandlerCall("clear_sticky_approvals", chat_id, r,
                            session_objects[r].sticky_approvals # <<>>,
                            [session_objects EXCEPT
                               ![r].sticky_approvals = <<>>])
    /\ UNCHANGED <<handlerVars, botVars, ioVars>>

\* The number of the stored sessions of the chats before chat_id.
RECURSIVE StoredBefore(_, _)
StoredBefore(data, chat_id) ==
    IF chat_id = 0 THEN 0
    ELSE StoredBefore(data, chat_id - 1)
            + (IF chat_id - 1 \in DOMAIN data
               THEN Len(data[chat_id - 1].sessions) ELSE 0)

\* SessionManager.__init__ and _restore_sessions, lines 105-157: the
\* program starts again on its store.  What was in memory is gone; every
\* stored session gives a Session with a PermissionHandler of its own.
restore_sessions ==
    /\ \A t \in Prompts : tasks[t] = NoTask
    /\ LET data == IF storage THEN storage_data ELSE EmptyDict
           ref(c, i) == StoredBefore(data, c) + i
       IN  /\ StoredBefore(data, Cardinality(Chats) + 1) <= MaxSessions
           /\ Commit([c \in DOMAIN data |->
                        [i \in 1..Len(data[c].sessions) |->
                           Item(data[c].sessions[i].value.name, ref(c, i))]],
                     [c \in DOMAIN data |-> data[c].active_session],
                     [r \in SessionRefs |->
                        IF \E c \in DOMAIN data :
                              \E i \in 1..Len(data[c].sessions) : ref(c, i) = r
                        THEN LET c == CHOOSE c \in DOMAIN data :
                                         \E i \in 1..Len(data[c].sessions) :
                                            ref(c, i) = r
                                 stored == data[c].sessions[
                                               r - StoredBefore(data, c)].value
                             IN  Session(stored.chat_id, stored.name,
                                         stored.cwd, stored.message_count,
                                         stored.claude_session_id)
                        ELSE NoSession],
                     storage_data,
                     [g \in Prompts |-> NoStream], {},
                     Returned("restore_sessions", 0, 0, TRUE))
    /\ UNCHANGED <<handlerVars, botVars, ioVars>>

\* The calls the clients make: one that needs a permission and a safe one.
HandlerCalls ==
    OtherCalls
    \cup {[tool_name |-> "Read", input_data |-> [file_path |-> Path_a]]}

\* One prompt of each chat at a time (the chat's lock); the session commands
\* are given in the first chat, the second has the session its prompt makes.
HandlerPrompts == {1, 2}

\* The response ends once the client has its answers: the client awaits
\* permission_callback before it goes on.
response_ends(g) ==
    /\ streams[g].pc = "receive"
    /\ ~session_objects[streams[g].session].has_pending
    /\ stream_ends(g)

HandlerNext ==
    \/ \E g \in HandlerPrompts : send_prompt(g, g)
    \/ \E g \in HandlerPrompts : stream_submitted(g)
    \/ \E g \in HandlerPrompts : response_ends(g)
    \/ \E g \in HandlerPrompts, tc \in HandlerCalls :
          session_request_permission(g, tc.tool_name, tc.input_data)
    \/ \E r \in SessionRefs : session_request_times_out(r)
    \/ \E c \in Chats : handle_approve(c)
    \/ \E c \in Chats : handle_reject(c)
    \/ \E c \in Chats : handle_sticky_approve(c)
    \/ \E c \in Chats : handle_clear_sticky(c)
    \/ \E c \in RegistryChats, n \in {None, "work"} : create_new(c, None, n)
    \/ \E c \in RegistryChats, n \in Names : switch_session(c, n)
    \/ \E c \in RegistryChats, n \in Names : close_session(c, n)

\* The sessions of one chat with their sticky approvals, while sessions are
\* made, replaced, switched and renamed and the program is started again.
StickyNext ==
    \/ \E g \in RegistryPrompts, c \in RegistryChats : send_prompt(g, c)
    \/ \E g \in RegistryPrompts : stream_submitted(g)
    \/ \E g \in RegistryPrompts : response_ends(g)
    \/ \E g \in RegistryPrompts, tc \in HandlerCalls :
          session_request_permission(g, tc.tool_name, tc.input_data)
    \/ \E c \in RegistryChats : handle_sticky_approve(c)
    \/ \E c \in RegistryChats : handle_clear_sticky(c)
    \/ \E c \in RegistryChats, n \in NameArgs : create_new(c, None, n)
    \/ \E c \in RegistryChats, n \in NameArgs : create_new_async(c, None, n)
    \/ \E c \in RegistryChats, n \in Names : switch_session(c, n)
    \/ \E c \in RegistryChats, o \in Names, n \in Names :
          rename_session(c, o, n)
    \/ restore_sessions

(***************************************************************************)
(* The restart of a chat (bot.py): the request shows a dialog, its buttons *)
(* cancel or confirm, and _do_restart cancels the chat's active task,      *)
(* waits for it, clears the sticky approvals of the active session and     *)
(* makes a new session.  The callback data of the buttons are kept as the  *)
(* sequences of their characters.                                          *)
(***************************************************************************)
\* A button that a message of the bot shows: what it is for, and the session
\* it was made for (None: none).  buttons holds the keyboard of the chat's
\* latest message that has one; the answer to a press edits or deletes the
\* message, and the keyboard goes.
Button(kind, name) == [kind |-> kind, name |-> name]

\* The keyboard of the latest message of the chat.
Shows(chat_id, keyboard) ==
    buttons' = [buttons EXCEPT ![chat_id] = keyboard]

CONFIRM_RESTART ==
    <<"c", "o", "n", "f", "i", "r", "m", "_", "r", "e", "s", "t", "a", "r", "t">>

CANCEL_RESTART ==
    <<"c", "a", "n", "c", "e", "l", "_", "r", "e", "s", "t", "a", "r", "t">>

\* A handler of the bot that calls nothing on the SessionManager but get.
BotReturned(op, chat_id, ok) ==
    /\ returned' = Returned(op, chat_id, manager_get(chat_id, None), ok)
    /\ UNCHANGED <<sessions, active_sessions, session_objects, storage,
                   storage_data, streams, closing>>

\* _handle_restart, lines 524-546: the dialog is shown
handle_restart(chat_id) ==
    /\ awaiting = 0
    /\ Shows(chat_id, {Button("confirm_restart", None),
                       Button("cancel_restart", None)})
    /\ BotReturned("restart", chat_id, TRUE)
    /\ UNCHANGED <<tasks, prompt_locks, active_tasks, cancel_flags, awaiting,
                   restarting, pending_renames>>
    /\ UNCHANGED <<handlerVars, ioVars>>

\* handle_callback, lines 398-401 and 456-457: the Cancel button of a dialog
cancel_restart(chat_id) ==
    /\ awaiting = 0
    /\ Button("cancel_restart", None) \in buttons[chat_id]
    /\ BotReturned("cancel_restart", chat_id, manager_get(chat_id, None) # 0)
    /\ Shows(chat_id, {})
    /\ UNCHANGED <<tasks, prompt_locks, active_tasks, cancel_flags, awaiting,
                   restarting, pending_renames>>
    /\ UNCHANGED <<handlerVars, ioVars>>

\* _do_restart, lines 557-566: the sticky approvals of the active session
\* are cleared and create_new_async makes the default session anew.
DoRestart(chat_id) ==
    /\ FreeRefs # {}
    /\ \E r \in {CreateNew(chat_id, None, None, NewRef, TRUE)} :
          Commit(r.sessions, r.active_sessions,
                 IF manager_get(chat_id, None) = 0 THEN r.session_objects
                 ELSE [r.session_objects EXCEPT
                         ![manager_get(chat_id, None)].sticky_approvals = <<>>],
                 r.storage_data, streams, r.closing,
                 Returned("do_restart", chat_id, r.session, TRUE))

\* handle_callback, lines 398-401 and 453-455, with _do_restart, lines
\* 548-556: the "Yes, restart" button, up to "await task" if a task runs.
confirm_restart(chat_id) ==
    /\ awaiting = 0
    /\ Button("confirm_restart", None) \in buttons[chat_id]
    /\ IF manager_get(chat_id, None) = 0
       THEN /\ BotReturned("confirm_restart", chat_id, FALSE)
            /\ UNCHANGED <<tasks, active_tasks, cancel_flags, awaiting,
                           restarting>>
       ELSE IF Running(active_tasks[chat_id])
       THEN /\ cancel_flags' = [cancel_flags EXCEPT ![chat_id] = "True"]
            /\ tasks' = Cancel(active_tasks[chat_id])
            /\ awaiting' = active_tasks[chat_id]
            /\ restarting' = TRUE
            /\ BotReturned("confirm_restart", chat_id, TRUE)
            /\ UNCHANGED active_tasks
       ELSE /\ DoRestart(chat_id)
            /\ UNCHANGED <<tasks, active_tasks, cancel_flags, awaiting,
                           restarting>>
    /\ Shows(chat_id, {})
    /\ UNCHANGED <<prompt_locks, pending_renames>>
    /\ UNCHANGED <<handlerVars, ioVars>>

\* _do_restart, lines 556-566: the awaited task is done
do_restart_returns ==
    /\ awaiting # 0
    /\ restarting
    /\ tasks[awaiting].pc = "done"
    /\ active_tasks' = [active_tasks EXCEPT ![tasks[awaiting].chat_id] = 0]
    /\ cancel_flags' = [cancel_flags EXCEPT ![tasks[awaiting].chat_id] = "absent"]
    /\ awaiting' = 0
    /\ restarting' = FALSE
    /\ DoRestart(tasks[awaiting].chat_id)
    /\ UNCHANGED <<tasks, prompt_locks, buttons, pending_renames>>
    /\ UNCHANGED <<handlerVars, ioVars>>

\* Two prompts of a chat whose client asks for a Write, the sticky approval
\* of the user, and the restart of the chat.
RestartNext ==
    \/ \E t \in QueuePrompts, c \in QueueChats : handle_prompt(t, c)
    \/ \E t \in QueuePrompts : TaskStep(t)
    \/ \E t \in QueuePrompts : working_sent_raises(t)
    \/ \E t \in QueuePrompts : run_prompt_error_chunk(t)
    \/ \E t \in QueuePrompts : generator_collected(t)
    \/ \E t \in QueuePrompts, tc \in OtherCalls :
          session_request_permission(t, tc.tool_name, tc.input_data)
    \/ \E c \in QueueChats : handle_sticky_approve(c)
    \/ \E c \in QueueChats : handle_restart(c)
    \/ \E c \in QueueChats : cancel_restart(c)
    \/ \E c \in QueueChats : confirm_restart(c)
    \/ do_restart_returns

(***************************************************************************)
(* The sessions dialog (bot.py, lines 579-636) and the dispatch of its     *)
(* buttons by the callback data (handle_callback, lines 373-396).          *)
(***************************************************************************)
\* The names of sessions as the strings of the callback data.
SpelledNames ==
    {"main", "work", "confirm_main", "cancel_main",
     "session-1", "session-2", "session-3", "session-4", "session-5", "session-6"}

\* The characters of a name.
chars_of(name) ==
    CASE name = "main" -> <<"m", "a", "i", "n">> []
         name = "work" -> <<"w", "o", "r", "k">> []
         name = "confirm_main" -> 
              <<"c", "o", "n", "f", "i", "r", "m", "_", "m", "a", "i", "n">> []
         name = "cancel_main" -> 
              <<"c", "a", "n", "c", "e", "l", "_", "m", "a", "i", "n">> []
         name = "session-1" -> 
              <<"s", "e", "s", "s", "i", "o", "n", "-", "1">> []
         name = "session-2" -> 
              <<"s", "e", "s", "s", "i", "o", "n", "-", "2">> []
         name = "session-3" -> 
              <<"s", "e", "s", "s", "i", "o", "n", "-", "3">> []
         name = "session-4" -> 
              <<"s", "e", "s", "s", "i", "o", "n", "-", "4">> []
         name = "session-5" -> 
              <<"s", "e", "s", "s", "i", "o", "n", "-", "5">> []
         name = "session-6" -> 
              <<"s", "e", "s", "s", "i", "o", "n", "-", "6">>

\* The name that the characters spell; a name of no session if none does.
name_of(chars) ==
    IF \E n \in SpelledNames : chars_of(n) = chars
    THEN CHOOSE n \in SpelledNames : chars_of(n) = chars
    ELSE "?"

SESSION_NEW == <<"s", "e", "s", "s", "i", "o", "n", "_", "n", "e", "w">>

SESSION_SWITCH ==
    <<"s", "e", "s", "s", "i", "o", "n", "_", "s", "w", "i", "t", "c", "h", "_">>

SESSION_CLOSE_CONFIRM ==
    <<"s", "e", "s", "s", "i", "o", "n", "_", "c", "l", "o", "s", "e", "_", "c", "o", "n", "f", "i", "r", "m", "_">>

SESSION_CLOSE_CANCEL ==
    <<"s", "e", "s", "s", "i", "o", "n", "_", "c", "l", "o", "s", "e", "_", "c", "a", "n", "c", "e", "l", "_">>

SESSION_CLOSE == <<"s", "e", "s", "s", "i", "o", "n", "_", "c", "l", "o", "s", "e", "_">>

SESSION_RENAME ==
    <<"s", "e", "s", "s", "i", "o", "n", "_", "r", "e", "n", "a", "m", "e", "_">>

\* The prefix of the callback data of each kind of button, with the
\* session's name after it.
prefix_of(kind) ==
    CASE kind = "switch" -> SESSION_SWITCH
      [] kind = "rename" -> SESSION_RENAME
      [] kind = "close" -> SESSION_CLOSE
      [] kind = "close_confirm" -> SESSION_CLOSE_CONFIRM
      [] kind = "close_cancel" -> SESSION_CLOSE_CANCEL

\* callback_data of a button: lines 603, 612, 618, 628, 697, 700, 539, 541
callback_data(button) ==
    CASE button.kind = "new" -> SESSION_NEW
      [] button.kind = "confirm_restart" -> CONFIRM_RESTART
      [] button.kind = "cancel_restart" -> CANCEL_RESTART
      [] OTHER -> prefix_of(button.kind) \o chars_of(button.name)

\* The sessions dialog shows, for every session of the chat, a switch, a
\* rename and a close button, and the new-session button.
SessionButtons(names) ==
    {Button(k, n) : k \in {"switch", "rename", "close"}, n \in names}
    \cup {Button("new", None)}

\* _show_sessions_dialog, lines 579-636: a chat without sessions gets its
\* default session first.
show_sessions_dialog(chat_id) ==
    /\ awaiting = 0
    /\ IF list_sessions(chat_id) = <<>>
       THEN /\ Creates(chat_id, None) => FreeRefs # {}
            /\ \E r \in {GetOrCreate(chat_id, None, None, NewRef)} :
                  /\ Commit(r.sessions, r.active_sessions, r.session_objects,
                            r.storage_data, streams, closing,
                            Returned("get_or_create", chat_id, r.session, TRUE))
                  /\ Shows(chat_id,
                           SessionButtons(Keys(r.sessions[chat_id])))
       ELSE /\ BotReturned("sessions", chat_id, TRUE)
            /\ Shows(chat_id, SessionButtons(Keys(sessions[chat_id])))
    /\ UNCHANGED <<tasks, prompt_locks, active_tasks, cancel_flags, awaiting,
                   restarting, pending_renames>>
    /\ UNCHANGED <<handlerVars, ioVars>>

\* _handle_session_new_callback, lines 662-667, in the dispatch
HandleSessionNew(chat_id) ==
    /\ FreeRefs # {}
    /\ \E r \in {CreateNew(chat_id, None, GenerateSessionName(chat_id),
                            NewRef, FALSE)} :
          Commit(r.sessions, r.active_sessions, r.session_objects,
                 r.storage_data, streams, r.closing,
                 Returned("create_new", chat_id, r.session, TRUE))

\* _handle_session_close_callback, lines 680-705: the confirmation is shown
\* for a session that list_sessions has.
HandleSessionClose(chat_id, name) ==
    LET found == \E i \in 1..Len(list_sessions(chat_id)) :
                    list_sessions(chat_id)[i].name = name
    IN  /\ BotReturned("session_close", chat_id, found)
        /\ Shows(chat_id, IF found THEN {Button("close_confirm", name),
                                         Button("close_cancel", name)}
                                   ELSE {})

\* handle_callback, lines 373-396: the session operations, told apart by
\* the head of the callback data in this order; each answer edits or deletes
\* the message of the button.  The data of the other buttons go to the
\* handlers of the permissions and of the restart.
handle_callback(chat_id, data) ==
    /\ awaiting = 0
    /\ IF data = SESSION_NEW
       THEN /\ HandleSessionNew(chat_id)
            /\ Shows(chat_id, {})
            /\ UNCHANGED pending_renames
       ELSE IF startswith(data, SESSION_SWITCH)
       THEN /\ SwitchSession(chat_id, name_of(slice_from(data, 15)))
            /\ Shows(chat_id, {})
            /\ UNCHANGED pending_renames
       ELSE IF startswith(data, SESSION_CLOSE_CONFIRM)
       THEN /\ CloseSession("close_session_async", chat_id,
                            name_of(slice_from(data, 22)), TRUE)
            /\ Shows(chat_id, {})
            /\ UNCHANGED pending_renames
       ELSE IF startswith(data, SESSION_CLOSE_CANCEL)
       THEN /\ BotReturned("session_close_cancel", chat_id, TRUE)
            /\ Shows(chat_id, {})
            /\ UNCHANGED pending_renames
       ELSE IF startswith(data, SESSION_CLOSE)
       THEN /\ HandleSessionClose(chat_id, name_of(slice_from(data, 14)))
            /\ UNCHANGED pending_renames
       ELSE IF startswith(data, SESSION_RENAME)
       THEN /\ pending_renames' =
                  [pending_renames EXCEPT
                     ![chat_id] = name_of(slice_from(data, 15))]
            /\ BotReturned("session_rename", chat_id, TRUE)
            /\ Shows(chat_id, {})
       ELSE FALSE
    /\ UNCHANGED <<tasks, prompt_locks, active_tasks, cancel_flags, awaiting,
                   restarting>>
    /\ UNCHANGED <<handlerVars, ioVars>>

\* The user presses a button that the latest message of the chat shows.
press_button(chat_id, button) ==
    /\ button \in buttons[chat_id]
    /\ handle_callback(chat_id, callback_data(button))

\* handle_text, lines 144-153: the text that follows a rename button is the
\* new name of the session.
handle_text(chat_id, text) ==
    /\ awaiting = 0
    /\ pending_renames[chat_id] # None
    /\ pending_renames' = [pending_renames EXCEPT ![chat_id] = None]
    /\ RenameSession(chat_id, pending_renames[chat_id], name_of(strip(text)))
    /\ UNCHANGED <<tasks, prompt_locks, active_tasks, cancel_flags, awaiting,
                   restarting, buttons>>
    /\ UNCHANGED <<handlerVars, ioVars>>

\* The names the user gives to sessions.
DialogNames == {"main", "confirm_main", "cancel_main"}

\* The texts the user sends after a rename button.
DialogTexts ==
    {chars_of(n) : n \in DialogNames}
    \cup {<<" ">> \o chars_of("main") \o <<" ">>}

\* The buttons of the sessions dialog and of the close confirmation.
DialogButtons ==
    {Button(k, n) : k \in {"switch", "rename", "close", "close_confirm",
                           "close_cancel"},
                    n \in SpelledNames}
    \cup {Button("new", None)}

DialogNext ==
    \/ \E c \in RegistryChats : show_sessions_dialog(c)
    \/ \E c \in RegistryChats, b \in DialogButtons : press_button(c, b)
    \/ \E c \in RegistryChats, text \in DialogTexts : handle_text(c, text)

(***************************************************************************)
(* The specifications.                                                     *)
(***************************************************************************)
\* A PermissionHandler with or without a notify callback, beside the manager
\* the bot constructs (bot.py, lines 46-51: with a store).
Init ==
    /\ PermissionHandlerInit
    /\ IoInit
    /\ SessionManagerInit
    /\ storage
    /\ VoiceAgentBotInit

\* One PermissionHandler under its requests and the user's answers.
Spec == Init /\ [][Next]_vars

\* A SessionManager with or without a store.
RegistryInit ==
    /\ PermissionHandlerInit
    /\ IoInit
    /\ ~notify_callback
    /\ SessionManagerInit
    /\ VoiceAgentBotInit

\* The SessionManager with its store under the registry operations.
RegistrySpec == RegistryInit /\ [][RegistryNext]_vars

\* The SessionManager with its store under prompts and registry operations.
PromptSpec == RegistryInit /\ [][PromptNext]_vars

\* The bot as constructed: its SessionManager has a store.
BotInit == RegistryInit /\ storage

\* The bot under prompts and cancels.
BotSpec == BotInit /\ [][BotNext]_vars

\* Two prompts of a chat and its cancels, where the event loop runs every
\* task that can take a step, every reply gets its answer and every response
\* of the engine comes to its end.
FairBotSpec ==
    /\ BotInit
    /\ [][QueueNext]_vars
    /\ \A t \in QueuePrompts : WF_vars(TaskStep(t))
    /\ \A t \in QueuePrompts : SF_vars(run_prompt_stream_ends(t))
    /\ WF_vars(handle_cancel_returns)

\* Two prompts of a chat among its session commands.
CommandSpec == BotInit /\ [][CommandNext]_vars

\* The bot has set the notify callback of the chat (line 835) before the
\* prompt's task is created.
CancelInit ==
    /\ PermissionHandlerInit
    /\ IoInit
    /\ notify_callback
    /\ SessionManagerInit
    /\ storage
    /\ VoiceAgentBotInit

\* Two prompts of a chat and its cancels beside the PermissionHandler of its
\* session.
CancelSpec == CancelInit /\ [][CancelNext]_vars

\* The store constructed on a file, and constructed again at each restart.
LoadInit ==
    /\ PermissionHandlerInit
    /\ ~notify_callback
    /\ SessionManagerInit
    /\ storage
    /\ VoiceAgentBotInit
    /\ disk \in Files
    /\ parsed = NotParsed

LoadNext == SessionStorage

LoadSpec == LoadInit /\ [][LoadNext]_vars

\* parse_command called once on a text and the configured projects.
RouterInit ==
    /\ PermissionHandlerInit
    /\ ~notify_callback
    /\ SessionManagerInit
    /\ storage
    /\ VoiceAgentBotInit
    /\ disk = NoFile
    /\ parsed \in {Call(text, projects) : text \in Texts,
                                          projects \in ProjectArgs}

RouterNext == parse

RouterSpec == RouterInit /\ [][RouterNext]_vars

\* Sessions created under numbered names, by name and by the new-session
\* button, and closed.
NameSpec == RegistryInit /\ [][NameNext]_vars

\* Prompts in flight while sessions are created, replaced, switched, renamed,
\* changed and closed.
CountNext ==
    \/ PromptNext
    \/ \E c \in RegistryChats, o \in Names, n \in Names : rename_session(c, o, n)

CountSpec == RegistryInit /\ [][CountNext]_vars

\* A store that starts empty, under its own operations.
StoreInit == RegistryInit /\ storage

StoreSpec == StoreInit /\ [][StoreNext]_vars

\* The sessions of two chats with their handlers: prompts whose clients ask
\* for permissions, the answers of the users, the session commands, and the
\* program started again.
HandlerSpec == RegistryInit /\ [][HandlerNext]_vars

\* One chat whose sessions gather sticky approvals while they are made,
\* replaced, switched and renamed, and the program started again.
StickySpec == RegistryInit /\ [][StickyNext]_vars

\* Two prompts of a chat and its restart.
RestartSpec == BotInit /\ [][RestartNext]_vars

\* One chat, its sessions dialog, the buttons of the dialog and of the close
\* confirmation, and the rename by text.
DialogSpec == BotInit /\ [][DialogNext]_vars

(***************************************************************************)
(* Properties of the permission engine.                                    *)
(***************************************************************************)
UserResolutions == {"approve", "deny", "sticky_approve"}

\* The resolutions by approve / deny / sticky_approve in a log.
ByUser(log) == SelectSeq(log, LAMBDA r : r.op \in UserResolutions)

\* request_permission has just finished for a call that created an object.
Finished == last.op = "request_permission" /\ last.pp # 0
            /\ last.outcome \in {"returned", "raised"}

\* The unsafe tool calls of the model, read off the safe lists by hand.
UnsafeInputs ==
    { [tool_name |-> "Bash", input_data |-> [command |-> Cmd_rm_ls]],
      [tool_name |-> "Write", input_data |-> [file_path |-> Path_a]] }

\* The safe tool calls of the model, read off the safe lists by hand.
SafeInputs ==
    { [tool_name |-> t, input_data |-> [file_path |-> Path_a]] :
        t \in {"Read", "Glob", "Grep", "WebSearch", "WebFetch"} }
    \cup { [tool_name |-> "Bash", input_data |-> [command |-> Cmd_cat_padded]],
           [tool_name |-> "Bash", input_data |-> [command |-> Cmd_lsof]],
           [tool_name |-> "Bash", input_data |-> [command |-> Cmd_git_status]] }

\* C1: single-slot discipline.  A request that is suspended and whose own
\* PendingPermission is still PENDING is the handler's pending request: a
\* second request never replaces or discards it, so at most one
\* PendingPermission is outstanding at any instant.
C1_SingleSlot ==
    \A k \in Slots :
        (calls[k].pc \in Suspended /\ perms[k].state = PENDING) => pending = k

\* C2: exactly-one resolution.  A request_permission call that created a
\* PendingPermission and has returned received exactly one resolution and
\* returns what that resolution says: (True, None) for approve or
\* sticky_approve, (False, message) for deny, (False, "Permission request
\* timed out") for the timeout with no approve or deny; a request that
\* approve() succeeded on never returns a denial.
C2_ExactlyOneResolution ==
    (Finished /\ last.outcome = "returned") =>
        LET user == ByUser(last.log)
        IN  /\ Len(user) <= 1
            /\ (last.ret = <<TRUE, None>>)
                  <=> (user # <<>> /\ user[1].op \in {"approve", "sticky_approve"})
            /\ (user # <<>> /\ user[1].op = "deny")
                  => last.ret = <<FALSE, user[1].message>>
            /\ (last.ret = <<FALSE, TimedOutMessage>>)
                  <=> (last.at = "timeout" /\ user = <<>>)

\* C3: an unsafe, non-sticky request stays suspended with has_pending() true
\* until it is resolved; approve() makes it return (True, None) and deny("x")
\* makes it return (False, "x"); once it has returned, has_pending() is false
\* and pending is None.
C3_SuspendsUntilResolved ==
    /\ \A k \in Slots :
          (calls[k].pc \in Suspended /\ resolvedBy[k] = <<>>) => has_pending
    /\ (Finished /\ ByUser(last.log) # <<>>) =>
          /\ last.outcome = "returned"
          /\ ByUser(last.log)[1].op \in {"approve", "sticky_approve"}
                => last.ret = <<TRUE, None>>
          /\ ByUser(last.log)[1].op = "deny"
                => last.ret = <<FALSE, ByUser(last.log)[1].message>>
    /\ (Finished /\ last.outcome = "returned") => (~has_pending /\ pending = 0)

\* C4: a request for a safe tool, or for a Bash command that starts with a
\* safe prefix once trimmed, returns (True, None) at once in any state of the
\* handler and changes nothing: no PendingPermission is created and an
\* existing pending request is left as it is.
C4_SafeAutoApproved ==
    [][(last'.op = "request_permission" /\ last'.at = "entry"
        /\ [tool_name |-> last'.tool_name, input_data |-> last'.input_data]
              \in SafeInputs)
       => /\ last'.outcome = "returned"
          /\ last'.ret = <<TRUE, None>>
          /\ UNCHANGED <<pending, perms, calls, sticky_approvals, resolvedBy>>
      ]_vars

C4_Witness ==
    /\ last.op = "request_permission"
    /\ last.outcome = "returned"
    /\ last.tool_name = "Bash"
    /\ last.input_data = [command |-> Cmd_cat_padded]
    /\ sticky_approvals = <<>>
    /\ has_pending

\* C5: a PendingPermission is never resolved twice by the user: at most one
\* of approve(), deny(), sticky_approve() succeeds on it, and every later
\* such call on it fails and changes neither the objects nor the sticky list.
C5_NeverResolvedTwice ==
    [][/\ \A k \in Slots : Len(ByUser(resolvedBy'[k])) <= 1
       /\ (/\ last'.op \in UserResolutions
           /\ pending # 0
           /\ ByUser(resolvedBy[pending]) # <<>>)
          => /\ last'.ret = (IF last'.op = "sticky_approve"
                             THEN NoStickyApproval ELSE FALSE)
             /\ UNCHANGED <<pending, perms, sticky_approvals, resolvedBy>>
      ]_vars

C5_Witness ==
    /\ last.op = "sticky_approve"
    /\ last.ret = NoStickyApproval
    /\ pending # 0
    /\ perms[pending].state = DENIED

\* C6: a PendingPermission is destroyed as soon as it is resolved: right
\* after approve(), deny() or sticky_approve() has succeeded, or the timeout
\* has been handled, has_pending() is false and get_pending_description()
\* returns None.
C6_DestroyedOnResolution ==
    (\/ last.op \in {"approve", "deny"} /\ last.ret = TRUE
     \/ last.op = "sticky_approve" /\ last.ret # NoStickyApproval
     \/ last.op = "request_permission" /\ last.at = "timeout")
    => (~has_pending /\ get_pending_description = NoDescription)

\* C7: a request that receives no approve or deny and whose timeout fires
\* returns (False, "Permission request timed out") and leaves the engine
\* clean: has_pending() is false and pending is None.
C7_TimeoutReturns ==
    (Finished /\ last.at = "timeout" /\ ByUser(last.log) = <<>>) =>
        /\ last.outcome = "returned"
        /\ last.ret = <<FALSE, TimedOutMessage>>
        /\ ~has_pending
        /\ pending = 0

\* C8: request_permission never ends with an exception.
C8_NeverRaises ==
    last.op = "request_permission" => last.outcome # "raised"

\* C9: approve() and deny() called when nothing is pending return False and
\* change nothing: not pending, not the objects' state or deny_message, not
\* the sticky list.
C9_Idempotence ==
    [][(last'.op \in {"approve", "deny"} /\ ~has_pending)
       => /\ last'.ret = FALSE
          /\ UNCHANGED <<pending, perms, calls, sticky_approvals, resolvedBy>>
      ]_vars

C9_Witness ==
    /\ last.op = "approve"
    /\ last.ret = FALSE
    /\ pending # 0
    /\ perms[pending].state = APPROVED

\* C10: once sticky_approve() has succeeded on a Bash request, every Bash
\* request returns (True, None) without creating a PendingPermission until
\* clear_sticky_approvals() is called; that call returns the number of rules
\* and empties the list; an unsafe request for a tool with no sticky approval
\* since the last clear pends.
C10_StickyUntilCleared ==
    [][/\ (/\ last'.op = "request_permission" /\ last'.at = "entry"
           /\ last'.tool_name = "Bash" /\ "Bash" \in stickySince)
          => /\ last'.outcome = "returned"
             /\ last'.ret = <<TRUE, None>>
             /\ UNCHANGED <<pending, perms, calls>>
       /\ last'.op = "clear_sticky_approvals"
          => /\ last'.ret = Len(sticky_approvals)
             /\ sticky_approvals' = <<>>
       /\ (/\ last'.op = "request_permission" /\ last'.at = "entry"
           /\ [tool_name |-> last'.tool_name, input_data |-> last'.input_data]
                 \in UnsafeInputs
           /\ last'.tool_name \notin stickySince)
          => /\ last'.outcome = "suspended"
             /\ pending' = last'.pp
             /\ perms'[pending'].state = PENDING
      ]_vars

C10_Witness ==
    /\ last.op = "request_permission"
    /\ last.outcome = "returned"
    /\ last.tool_name = "Bash"
    /\ last.input_data = [command |-> Cmd_rm_ls]
    /\ "Bash" \in stickySince

\* The field TOOL_FIELD_NAMES designates for the unsafe tools of the model,
\* read off the table by hand.
DesignatedField(tool_name) ==
    IF tool_name = "Bash" THEN "command" ELSE "file_path"

\* C11: sticky_approve() on a PENDING request resolves it as APPROVED and
\* appends exactly one StickyApproval for the request's tool, with no pattern
\* and the tool's designated field, and returns it; with nothing pending or
\* the request already resolved it returns None and leaves the sticky list
\* unchanged; the list changes in no other way than by such an append or by
\* being cleared, and no request contributes two rules.
C11_StickyApproveAppendsOneRule ==
    [][/\ (last'.op = "sticky_approve" /\ has_pending)
          => LET rule == [tool_name |-> perms[pending].tool_name,
                          pattern |-> None,
                          field_name |-> DesignatedField(perms[pending].tool_name)]
             IN  /\ last'.ret = rule
                 /\ sticky_approvals' = Append(sticky_approvals, rule)
                 /\ pending' = pending
                 /\ perms'[pending].state = APPROVED
                 /\ perms'[pending].event
                 /\ Len(SelectSeq(resolvedBy'[pending],
                            LAMBDA r : r.op = "sticky_approve")) = 1
       /\ (last'.op = "sticky_approve" /\ ~has_pending)
          => /\ last'.ret = NoStickyApproval
             /\ UNCHANGED <<sticky_approvals, perms, pending>>
       /\ sticky_approvals' # sticky_approvals
          => \/ last'.op = "sticky_approve" /\ has_pending
             \/ last'.op = "clear_sticky_approvals" /\ sticky_approvals' = <<>>
      ]_vars

C11_Witness ==
    /\ last.op = "sticky_approve"
    /\ last.ret # NoStickyApproval
    /\ Len(sticky_approvals) = 2
    /\ sticky_approvals[1].tool_name = "Write"
    /\ sticky_approvals[2].tool_name = "Bash"

(***************************************************************************)
(* Properties of the Session Registry and the Session Store.               *)
(***************************************************************************)
CreateOps == {"create_new", "create_new_async"}

CloseOps == {"close_session", "close_session_async"}

\* C12: ChatState invariant.  Every chat whose session mapping is non-empty
\* has an active session name that is a key of the mapping: get(chat_id)
\* with no name returns a session and exactly one entry of
\* list_sessions(chat_id) has is_active true.
C12_ChatStateInvariant ==
    \A c \in DOMAIN sessions :
        sessions[c] # <<>> =>
            /\ active_name(active_sessions, c) \in Keys(sessions[c])
            /\ manager_get(c, None) # 0
            /\ Cardinality({i \in 1..Len(list_sessions(c)) :
                               list_sessions(c)[i].is_active}) = 1

\* C13, as claimed: create_new under a name other than the active session
\* name of a chat that has one leaves the chat's active session unchanged.
C13_ActiveOnlyIfSameName ==
    [][(/\ returned'.op \in CreateOps
        /\ returned'.chat_id \in DOMAIN active_sessions
        /\ session_objects'[returned'.session].name
              # active_sessions[returned'.chat_id])
       => active_sessions'[returned'.chat_id]
             = active_sessions[returned'.chat_id]
      ]_vars

\* C13, amended: create_new makes the session it creates the active one in
\* every case; under a name other than the chat's active session name it
\* changes the active session to the new one.
C13_CreateNewAlwaysActive ==
    [][returned'.op \in CreateOps
       => /\ returned'.session # 0
          /\ returned'.chat_id \in DOMAIN active_sessions'
          /\ active_sessions'[returned'.chat_id]
                = session_objects'[returned'.session].name
          /\ (/\ returned'.chat_id \in DOMAIN active_sessions
              /\ session_objects'[returned'.session].name
                    # active_sessions[returned'.chat_id])
             => active_sessions'[returned'.chat_id]
                   # active_sessions[returned'.chat_id]
      ]_vars

\* create_new has added "work" to a chat that had "main", and "work" is active.
C13_Witness ==
    /\ returned.op = "create_new"
    /\ returned.chat_id \in DOMAIN sessions
    /\ Len(sessions[returned.chat_id]) = 2
    /\ sessions[returned.chat_id][1].name = "main"
    /\ sessions[returned.chat_id][2] = Item("work", returned.session)
    /\ active_sessions[returned.chat_id] = "work"

\* C14: create_new replaces any session of the name by a fresh Session
\* (message_count 0, no client, no pending permission) that no prompt in
\* flight holds; the chat has one session per name as before; and the new
\* session is the active one: get_active_session_name is its name, its
\* SessionInfo.is_active is true and every other one's is false.
C14_CreateNewReplaces ==
    [][returned'.op \in CreateOps
       => \A c \in Chats : returned'.chat_id = c =>
          LET new == returned'.session
          IN  /\ new # 0
              /\ session_objects'[new].message_count = 0
              /\ ~session_objects'[new].sdk_client
              /\ ~session_objects'[new].has_pending
              /\ session_objects'[new].chat_id = c
              /\ session_objects'[new].name \in Names
              /\ \A g \in Prompts :
                    streams'[g].pc # "none" => streams'[g].session # new
              /\ c \in DOMAIN sessions'
              /\ Keys(sessions'[c]) =
                    (IF c \in DOMAIN sessions THEN Keys(sessions[c]) ELSE {})
                    \cup {session_objects'[new].name}
              /\ Len(sessions'[c]) = Cardinality(Keys(sessions'[c]))
              /\ GetItem(sessions'[c], session_objects'[new].name) = new
              /\ get_active_session_name(c)' = session_objects'[new].name
              /\ \A i \in 1..Len(list_sessions(c)') :
                    list_sessions(c)'[i].is_active
                       <=> (sessions'[c][i].value = new)
      ]_vars

\* create_new has replaced a session that a prompt in flight still holds,
\* with its message count, its client and a pending permission.
C14_Witness ==
    /\ returned.op = "create_new"
    /\ \E g \in Prompts :
          /\ streams[g].pc = "receive"
          /\ streams[g].session # returned.session
          /\ session_objects[streams[g].session].name
                = session_objects[returned.session].name
          /\ session_objects[streams[g].session].message_count = 1
          /\ session_objects[streams[g].session].sdk_client
          /\ session_objects[streams[g].session].has_pending
    /\ Len(sessions[returned.chat_id]) = 2

\* C15: close_session / close_session_async of an existing session removes
\* it; if it was active and others remain, a remaining one is active; if it
\* was the last one of the chat, the chat is gone: list_sessions returns []
\* and get_active_session_name returns None; for an unknown chat or name the
\* call returns False and changes nothing.
C15_CloseSession ==
    [][returned'.op \in CloseOps
       => \A c \in Chats : returned'.chat_id = c =>
              IF returned'.ok
              THEN /\ c \in DOMAIN sessions
                   /\ Len(sessions[c]) >= 1
                   /\ IF Len(sessions[c]) = 1
                      THEN /\ list_sessions(c)' = <<>>
                           /\ get_active_session_name(c)' = None
                      ELSE /\ c \in DOMAIN sessions'
                           /\ Len(sessions'[c]) = Len(sessions[c]) - 1
                           /\ Keys(sessions'[c]) \subseteq Keys(sessions[c])
                           /\ active_sessions[c] \notin Keys(sessions'[c])
                                 => active_sessions'[c] \in Keys(sessions'[c])
              ELSE UNCHANGED <<sessions, active_sessions, session_objects,
                               storage_data>>
      ]_vars

\* The store's record of chat c is the registry's: the same session names,
\* the same active name and the same data of each session.  A chat with no
\* session is a chat the store does not have.
Mirrors(c) ==
    IF c \notin DOMAIN sessions \/ sessions[c] = <<>>
    THEN c \notin DOMAIN storage_data
    ELSE /\ c \in DOMAIN storage_data
         /\ Keys(storage_data[c].sessions) = Keys(sessions[c])
         /\ storage_data[c].active_session = active_name(active_sessions, c)
         /\ \A n \in Keys(sessions[c]) :
               GetItem(storage_data[c].sessions, n)
                  = StoredSession(session_objects[GetItem(sessions[c], n)])

\* C16: with a store attached, after every operation of the registry the
\* store mirrors the registry, so that a SessionManager restored from it has
\* the same sessions and the same active session.
C16_StoreMirrorsRegistry ==
    storage => \A c \in Chats : Mirrors(c)

(***************************************************************************)
(* Properties of the bot: ordering, mutual exclusion and cancellation.     *)
(***************************************************************************)
SameChat(a, b) ==
    /\ tasks[a].pc # "none"
    /\ tasks[b].pc # "none"
    /\ tasks[a].chat_id = tasks[b].chat_id

Queued == {"start", "notice", "acquire"}

\* C17: within one chat prompts execute in arrival order.  When a prompt
\* enters its exchange (it has the lock), every prompt of the chat handed to
\* _handle_prompt before it has finished, or a cancel is ending it.
C17_ArrivalOrder ==
    [][\A a \in Prompts, b \in Prompts :
          (/\ a < b
           /\ SameChat(a, b)
           /\ tasks[b].pc \in Queued
           /\ tasks'[b].pc = "working")
          => (tasks'[a].pc = "done" \/ tasks'[a].cancelling)
      ]_vars

\* C18: per-chat mutual exclusion.  At most one prompt of a chat is inside
\* its exchange, and it has the lock; a prompt that waits has no send_prompt
\* stream; only the prompt inside its exchange iterates a stream of the chat.
C18_MutualExclusion ==
    \A a \in Prompts :
        /\ tasks[a].pc \in InExchange
              => /\ prompt_locks[tasks[a].chat_id].locked
                 /\ \A b \in Prompts \ {a} :
                       SameChat(a, b) => tasks[b].pc \notin InExchange
        /\ tasks[a].pc \in Queued => streams[a].pc = "none"
        /\ tasks[a].pc \in {"acquire"}
              => \E i \in 1..Len(prompt_locks[tasks[a].chat_id].waiters) :
                    prompt_locks[tasks[a].chat_id].waiters[i] = a

\* Two prompts of different chats receive their responses together while a
\* third prompt waits for the lock of its chat.
C18_Witness ==
    \E a \in Prompts, b \in Prompts, q \in Prompts :
        /\ tasks[a].pc = "stream" /\ streams[a].pc = "receive"
        /\ tasks[b].pc = "stream" /\ streams[b].pc = "receive"
        /\ tasks[a].chat_id # tasks[b].chat_id
        /\ tasks[q].pc = "acquire"
        /\ tasks[q].chat_id = tasks[a].chat_id

\* C19: a cancel for a chat with an exchange in flight cancels that exchange
\* and never a prompt queued behind it, and no prompt is aborted by a cancel
\* that was aimed at another prompt: a prompt inside its try statement with
\* the chat's cancel flag set is the one the cancel was aimed at.
C19_CancelHitsRunning ==
    [][/\ \A t \in Prompts :
             (/\ ~tasks[t].cancelling
              /\ tasks'[t].cancelling
              /\ \E r \in Prompts :
                    SameChat(r, t) /\ tasks[r].pc \in InExchange)
             => tasks[t].pc \in InExchange
       /\ \A t \in Prompts :
             (/\ tasks'[t].pc \in {"stream", "batch", "send"}
              /\ cancel_flags'[tasks'[t].chat_id] = "True")
             => tasks'[t].cancelling
      ]_vars

\* Whenever no prompt of a chat is inside its exchange, the chat's lock is free.
C20_LockFree ==
    \A c \in Chats :
        (\A t \in Prompts : tasks[t].chat_id = c => tasks[t].pc \notin InExchange)
        => ~prompt_locks[c].locked

SameSession(r) ==
    LET o == session_objects[r]
    IN  /\ o.chat_id \in DOMAIN sessions
        /\ o.name \in Keys(sessions[o.chat_id])
        /\ GetItem(sessions[o.chat_id], o.name) = r
        /\ o.chat_id \in DOMAIN sessions'
        /\ o.name \in Keys(sessions'[o.chat_id])

\* C22: on an error of the client the handle is torn down.  Once a stream
\* that yielded the error chunk has finished, or was left by its consumer
\* at the error chunk, its session has no client.
C22_ClientTornDownOnError ==
    [][\A g \in Prompts :
          (/\ streams[g].pc = "error"
           /\ streams'[g].pc = "none"
           /\ SameSession(streams[g].session))
          => LET o == session_objects[streams[g].session]
             IN  ~session_objects'[GetItem(sessions'[o.chat_id], o.name)].sdk_client
      ]_vars

\* C23: errors of the agent runtime never leave send_prompt as exceptions.
\* No send_prompt raises, and a stream that failed yields the error chunk
\* as its last chunk: after it the stream only ends.
C23_ErrorsBecomeChunks ==
    [][/\ returned'.op # "send_prompt_raises"
       /\ \A g \in Prompts :
             streams[g].pc = "error" => streams'[g].pc \in {"error", "none"}
      ]_vars

\* The session of chat c named n exists and has a client.
HasClient(c, n) ==
    /\ c \in DOMAIN sessions
    /\ n \in Keys(sessions[c])
    /\ session_objects[GetItem(sessions[c], n)].sdk_client

\* A send_prompt of chat c takes its first step.
Starts(c) ==
    \E t \in Prompts :
        /\ tasks[t].chat_id = c
        /\ streams[t].pc = "none"
        /\ streams'[t].pc = "submit"

Iterating == {"stream", "batch"}

\* C24: client-handle lifecycle.  A session that has had no prompt has no
\* client; a session gets a client only at the first step of a send_prompt of
\* its chat, and a send_prompt on a session that has a client leaves it one;
\* no two prompt exchanges iterate a stream of the same Session at the same
\* time.
C24_ClientLifecycle ==
    [][/\ \A r \in SessionRefs :
             session_objects'[r].message_count = 0
                => ~session_objects'[r].sdk_client
       /\ \A c \in Chats, n \in Names :
             /\ (~HasClient(c, n) /\ HasClient(c, n)') => Starts(c)
             /\ (/\ HasClient(c, n)
                 /\ n = active_name(active_sessions, c)
                 /\ Starts(c))
                => HasClient(c, n)'
       /\ \A a \in Prompts, b \in Prompts :
             (/\ a # b
              /\ tasks'[a].pc \in Iterating
              /\ tasks'[b].pc \in Iterating)
             => streams'[a].session # streams'[b].session
      ]_vars

\* The second prompt of a session receives its response with the client the
\* first one created, beside a session that has had no prompt.
C24_Witness ==
    \E a \in Prompts, r \in SessionRefs :
        /\ tasks[a].pc = "stream" /\ streams[a].pc = "receive"
        /\ session_objects[streams[a].session].message_count = 2
        /\ session_objects[streams[a].session].sdk_client
        /\ session_objects[r].chat_id = tasks[a].chat_id
        /\ session_objects[r].message_count = 0
        /\ r \in Range([i \in 1..Len(sessions[tasks[a].chat_id]) |->
                          sessions[tasks[a].chat_id][i].value])

\* The Session r is held by the registry under its name.
Registered(r) ==
    LET o == session_objects[r]
    IN  /\ r # 0
        /\ o.chat_id \in DOMAIN sessions
        /\ o.name \in Keys(sessions[o.chat_id])
        /\ GetItem(sessions[o.chat_id], o.name) = r

\* The store holds the Session r as it is in memory.
Stored(r) ==
    LET o == session_objects[r]
    IN  /\ o.chat_id \in DOMAIN storage_data
        /\ o.name \in Keys(storage_data[o.chat_id].sessions)
        /\ GetItem(storage_data[o.chat_id].sessions, o.name) = StoredSession(o)

\* C25: send_prompt persists the session once its stream is over.  When a
\* stream of send_prompt has completed, with its response or with the error
\* chunk, the store holds the session with the message_count and the other
\* metadata it has in memory.
C25_PersistedWhenStreamOver ==
    [][\A r \in SessionRefs :
          (/\ returned'.op = "send_prompt_end"
           /\ returned'.session = r
           /\ storage'
           /\ Registered(r)')
          => Stored(r)'
      ]_vars

(***************************************************************************)
(* Properties of switch_session and rename_session.                        *)
(***************************************************************************)
\* The names of the chat's sessions, none for a chat the registry lacks.
SessionNames(sess, c) == IF c \in DOMAIN sess THEN Keys(sess[c]) ELSE {}

\* The registry and the store are as they were.
RegistryUnchanged ==
    UNCHANGED <<sessions, active_sessions, session_objects, storage_data>>

\* C28: switch_session never creates a session.  For a chat or a name the
\* registry does not have it returns None and leaves the sessions, the
\* active name and the store as they were; for a session that exists it
\* returns that Session, the sessions stay the same, and the active name is
\* the given name afterwards, in the registry and in the store.
C28_SwitchNeverCreates ==
    [][\A c \in Chats, n \in Names :
          switch_session(c, n) =>
             IF n \notin SessionNames(sessions, c)
             THEN /\ returned'.session = 0
                  /\ RegistryUnchanged
             ELSE /\ returned'.session = GetItem(sessions'[c], n)
                  /\ session_objects'[returned'.session]
                        = session_objects[GetItem(sessions[c], n)]
                  /\ DOMAIN sessions' = DOMAIN sessions
                  /\ \A d \in DOMAIN sessions :
                        Keys(sessions'[d]) = Keys(sessions[d])
                  /\ active_sessions'[c] = n
                  /\ storage =>
                        /\ c \in DOMAIN storage_data'
                        /\ storage_data'[c].active_session = n
      ]_vars

\* A switch has just returned the session "work" of a chat with two sessions
\* and a store, and "work" is the active name in both.
C28_Witness ==
    /\ returned.op = "switch_session"
    /\ returned.ok
    /\ storage
    /\ session_objects[returned.session].name = "work"
    /\ active_sessions[returned.chat_id] = "work"
    /\ Keys(sessions[returned.chat_id]) = {"main", "work"}
    /\ storage_data[returned.chat_id].active_session = "work"

\* The session named n is the active session of chat c.
IsActive(act, c, n) == active_name(act, c) = n

\* C29: rename_session returns False and changes nothing when the old name
\* is absent or the new name is present; on success the same Session, with
\* its cwd, message_count, client and pending permission, is under the new
\* name and no longer under the old one, the number of sessions is
\* unchanged, and the renamed session is active afterwards iff it was active
\* before.
C29_RenameSession ==
    [][\A c \in Chats, old \in Names, new \in Names :
          rename_session(c, old, new) =>
             IF old \notin SessionNames(sessions, c)
                \/ new \in SessionNames(sessions, c)
             THEN /\ ~returned'.ok
                  /\ RegistryUnchanged
             ELSE /\ returned'.ok
                  /\ new \in Keys(sessions'[c])
                  /\ old \notin Keys(sessions'[c])
                  /\ session_objects'[GetItem(sessions'[c], new)]
                        = [session_objects[GetItem(sessions[c], old)]
                              EXCEPT !.name = new]
                  /\ Len(sessions'[c]) = Len(sessions[c])
                  /\ IsActive(active_sessions', c, new)
                        <=> IsActive(active_sessions, c, old)
      ]_vars

(***************************************************************************)
(* Properties of the permission engine under cancellation.                 *)
(***************************************************************************)
\* A request_permission call is in flight that waits on the pending request,
\* or has yet to start waiting, or is about to clear it.
PendingIsWaitedOn ==
    \E k \in Slots :
        \/ calls[k].pc = "wait" /\ calls[k].waiting = pending
        \/ calls[k].pc \in {"notify", "timeout"}

\* The CancelledError is delivered to the task of prompt t in its exchange.
CancelDelivered(t) ==
    /\ tasks[t].pc \in InExchange
    /\ tasks[t].cancelling
    /\ ~tasks'[t].cancelling

\* C21: cancellation does not corrupt the pending-permission state.  When a
\* prompt exchange is cancelled while the engine has a PENDING request, a
\* request_permission call is still waiting on that request, so that its
\* timeout resolves it at the latest; the engine is not left with a PENDING
\* request nobody waits on, which would stay pending forever and on which
\* approve() would report success.
C21_CancelledPendingIsWaitedOn ==
    [][\A t \in Prompts :
          (CancelDelivered(t) /\ has_pending) => PendingIsWaitedOn
      ]_vars

(***************************************************************************)
(* Properties of the store's file.                                         *)
(***************************************************************************)
\* The records of the file, none for a file that holds no JSON object.
Records(file) ==
    IF file.kind = "json" /\ file.value.kind = "object"
    THEN file.value.items ELSE <<>>

\* Every record of the file is one the program wrote for the chat of its key.
WellFormed(file) ==
    /\ file.kind = "json"
    /\ file.value.kind = "object"
    /\ \A i \in DOMAIN Records(file) :
          /\ Records(file)[i].name \in NumericKeys
          /\ Records(file)[i].value
                \in OldRecords(int(Records(file)[i].name))
                       \cup NewRecords(int(Records(file)[i].name))

\* The record i of the file is the last one of its chat.
LastOfChat(file, i) ==
    \A j \in DOMAIN Records(file) :
        int(Records(file)[j].name) = int(Records(file)[i].name) => j <= i

\* The chat's state in the store is the one session "main", active, with the
\* cwd, message_count and claude_session_id of the old record.
Migrated(state, chat_id, old) ==
    /\ state.active_session = "main"
    /\ Keys(state.sessions) = {"main"}
    /\ Len(state.sessions) = 1
    /\ LET session == GetItem(state.sessions, "main")
       IN  /\ session.name = "main"
           /\ session.chat_id = chat_id
           /\ session.cwd = py(GetItem(old.items, "cwd"))
           /\ session.message_count = py(GetItem(old.items, "message_count"))
           /\ session.claude_session_id
                 = py(dict_get(old, "claude_session_id", JNull))

Corrupt(file) ==
    \/ file.kind = "invalid"
    \/ file.kind = "json" /\ file.value.kind # "object"
    \/ \E i \in DOMAIN Records(file) :
          \/ Records(file)[i].name \notin NumericKeys
          \/ Records(file)[i].value \in OtherRecords(1)

\* C27: loading a corrupt store file never raises and gives an empty store,
\* also when records before the corrupt one were well-formed.
C27_CorruptFileStartsFresh ==
    [][Corrupt(disk) => (returned'.ok /\ storage_data' = EmptyDict)]_vars
(***************************************************************************)
(* Properties of the command router.                                       *)
(***************************************************************************)
\* The text as the keywords are looked for in it: lower-cased, trimmed, and
\* without '.', ',', '!', '?' at its end.
Normalised(text) == rstrip_chars(strip(lower(text)), {".", ",", "!", "?"})

\* The keyword categories in the order of their precedence, each with the
\* way its keywords are looked for.
Precedence ==
    <<[type |-> "APPROVE", keywords |-> APPROVE_KEYWORDS, exact |-> TRUE],
      [type |-> "REJECT", keywords |-> REJECT_KEYWORDS, exact |-> TRUE],
      [type |-> "STATUS", keywords |-> STATUS_KEYWORDS, exact |-> FALSE],
      [type |-> "NEW_SESSION", keywords |-> NEW_SESSION_KEYWORDS,
       exact |-> FALSE],
      [type |-> "CONTINUE_SESSION", keywords |-> CONTINUE_SESSION_KEYWORDS,
       exact |-> FALSE],
      [type |-> "STICKY_APPROVE", keywords |-> STICKY_APPROVE_KEYWORDS,
       exact |-> FALSE],
      [type |-> "CLEAR_STICKY", keywords |-> CLEAR_STICKY_KEYWORDS,
       exact |-> FALSE],
      [type |-> "LIST_APPROVALS", keywords |-> LIST_APPROVALS_KEYWORDS,
       exact |-> FALSE],
      [type |-> "CANCEL", keywords |-> CANCEL_KEYWORDS, exact |-> FALSE],
      [type |-> "RESTART", keywords |-> RESTART_KEYWORDS, exact |-> TRUE],
      [type |-> "SESSIONS", keywords |-> SESSIONS_KEYWORDS, exact |-> FALSE]>>

Matches(category, t) ==
    IF category.exact
    THEN t \in category.keywords
    ELSE \E keyword \in category.keywords : str_in(keyword, t)

Matching(t) == {i \in DOMAIN Precedence : Matches(Precedence[i], t)}

SwitchApplies(text, projects) ==
    switch_project(text, Normalised(text), projects) # FallsThrough

IsSkill(t) ==
    startswith(t, <<"s", "k", "i", "l", "l", " ">>)
    /\ strip(slice_from(t, 6)) # <<>>

\* C30: parse_command gives a text the type of the first category, in the
\* order APPROVE and REJECT (the normalised text is a keyword), STATUS,
\* NEW_SESSION, CONTINUE_SESSION, STICKY_APPROVE, CLEAR_STICKY,
\* LIST_APPROVALS, CANCEL (a keyword occurs in it), RESTART (it is a
\* keyword), SESSIONS (a keyword occurs in it), that matches it; a text that
\* no category matches is a SWITCH_PROJECT to one of the projects when a
\* project-switch pattern applies, else the PROMPT '/<name>' when it is
\* 'skill <name>', else the PROMPT of the text unchanged.
C30_Precedence ==
    parsed.command_type # None =>
        LET t == Normalised(parsed.text)
        IN  IF Matching(t) # {}
            THEN /\ parsed.command_type = Precedence[Min(Matching(t))].type
                 /\ parsed.command_text = parsed.text
                 /\ parsed.project = NoProject
            ELSE IF SwitchApplies(parsed.text, parsed.projects)
            THEN /\ parsed.command_type = "SWITCH_PROJECT"
                 /\ \E i \in DOMAIN parsed.projects :
                       parsed.project = <<parsed.projects[i]>>
            ELSE /\ parsed.command_type = "PROMPT"
                 /\ parsed.project = NoProject
                 /\ parsed.command_text =
                       IF IsSkill(t)
                       THEN <<"/">> \o strip(slice_from(t, 6))
                       ELSE parsed.text

\* A text in which keywords of two categories occur, one of them a sessions
\* keyword, was parsed as the CANCEL that comes first.
C30_Witness ==
    /\ parsed.command_type = "CANCEL"
    /\ Cardinality(Matching(Normalised(parsed.text))) >= 2
    /\ any_keyword_in(SESSIONS_KEYWORDS, Normalised(parsed.text))

(***************************************************************************)
(* Properties of the session names.                                        *)
(***************************************************************************)
\* The names of the sessions of a chat.
ExistingNames(chat_id) ==
    IF chat_id \in DOMAIN sessions THEN Keys(sessions[chat_id]) ELSE {}

\* C33: generate_session_name(chat_id) returns "session-N" for the least
\* N >= 2 that is the name of no session of the chat, so never the name of a
\* session of the chat, and it changes nothing.
C33_GenerateSessionName ==
    [][returned'.op = "generate_session_name" =>
          /\ \E N \in 2..(MaxSessions + 2) :
                /\ returned'.name = session_n(N)
                /\ session_n(N) \notin ExistingNames(returned'.chat_id)
                /\ \A M \in 2..(N - 1) :
                      session_n(M) \in ExistingNames(returned'.chat_id)
          /\ ExistingNames(returned'.chat_id) = {} =>
                returned'.name = "session-2"
          /\ ExistingNames(returned'.chat_id) = {"main"} =>
                returned'.name = "session-2"
          /\ UNCHANGED <<sessions, active_sessions, session_objects, storage,
                         storage_data, streams, closing>>
          /\ UNCHANGED <<handlerVars, botVars, ioVars>>]_vars

\* The name was asked for in a chat with the sessions "session-2" and
\* "session-4": it is "session-3".
C33_Witness ==
    /\ returned.op = "generate_session_name"
    /\ ExistingNames(returned.chat_id) = {"session-2", "session-4"}
    /\ returned.name = "session-3"

(***************************************************************************)
(* Properties of the message count.                                        *)
(***************************************************************************)
\* The step is the call op that returned the Session under name n of chat c.
StepOn(ops, c, n) ==
    /\ returned'.op \in ops
    /\ returned'.chat_id = c
    /\ returned'.ok
    /\ c \in DOMAIN sessions'
    /\ n \in Keys(sessions'[c])
    /\ GetItem(sessions'[c], n) = returned'.session

\* The message_count of the session of chat c under name n, before and
\* after the step.
CountOf(c, n) == session_objects[GetItem(sessions[c], n)].message_count

CountOfNext(c, n) == session_objects'[GetItem(sessions'[c], n)].message_count

\* The session under name n of chat c is the same object before and after
\* the step and the step is no send_prompt on it.
KeptUntouched(c, n) ==
    /\ c \in DOMAIN sessions /\ n \in Keys(sessions[c])
    /\ c \in DOMAIN sessions' /\ n \in Keys(sessions'[c])
    /\ ~StepOn({"create_new", "create_new_async", "send_prompt"}, c, n)
    /\ ~(returned'.op = "rename_session" /\ returned'.ok)

Created(k) == perms[k] = NoPermission /\ perms'[k] # NoPermission

\* The step invokes the notify callback from the coroutine of slot k.
Notified(k) == calls[k].pc # "notify" /\ calls'[k].pc = "notify"

\* C34: the notify callback is invoked by the request_permission that
\* creates a PendingPermission, with the tool_name and input_data of that
\* request, and by no other step (not by a request that is auto-approved as
\* safe or by a sticky rule, not by approve, deny, sticky_approve or a
\* timeout); the coroutine starts waiting only when the callback has
\* returned.
C34_NotifiedOncePerRequest ==
    [][\A k \in Slots :
          /\ Notified(k) <=> (Created(k) /\ notify_callback)
          /\ Notified(k) =>
                /\ last'.op = "request_permission"
                /\ last'.at = "entry"
                /\ last'.pp = k
                /\ perms'[k].tool_name = last'.tool_name
                /\ perms'[k].input_data = last'.input_data
                /\ perms'[k].state = PENDING
                /\ ~is_safe_tool_call(last'.tool_name, last'.input_data)
                /\ ~check_sticky_approval(last'.tool_name, last'.input_data)
          /\ (notify_callback /\ calls[k].pc # "wait" /\ calls'[k].pc = "wait")
                => calls[k].pc = "notify"]_vars

\* A second request is being notified while the first, notified before, is
\* waiting, and a sticky rule is in force.
C34_Witness ==
    /\ notify_callback
    /\ sticky_approvals # <<>>
    /\ \E j \in Slots, k \in Slots :
          /\ j # k
          /\ calls[j].pc = "wait"
          /\ calls[k].pc = "notify"
          /\ pending = k

(***************************************************************************)
(* Properties of the store under its own operations.                       *)
(***************************************************************************)
\* Every chat of the store has a session and its active_session names one.
StoreInvariant(data) ==
    \A c \in DOMAIN data :
        /\ data[c].sessions # <<>>
        /\ data[c].active_session \in Keys(data[c].sessions)

StoredNames(data, c) ==
    IF c \in DOMAIN data THEN Keys(data[c].sessions) ELSE {}

\* C38: from the empty store on, after every save_session,
\* set_active_session, delete_session, rename_session and delete_chat, each
\* chat of the store has at least one session and its active_session is the
\* name of one of them; deleting the active session makes a remaining
\* session active, deleting the last session removes the chat, and
\* set_active_session with an unknown name returns False and changes nothing.
C38_StoreInvariant ==
    [][/\ StoreInvariant(storage_data')
       /\ \A c \in Chats, n \in Names :
             (delete_session(c, n) /\ returned'.ok) =>
                /\ StoredNames(storage_data', c)
                      = StoredNames(storage_data, c) \ {n}
                /\ (StoredNames(storage_data, c) = {n})
                      <=> (c \notin DOMAIN storage_data')
                /\ (c \in DOMAIN storage_data'
                    /\ storage_data[c].active_session # n) =>
                      storage_data'[c].active_session
                         = storage_data[c].active_session
       /\ \A c \in Chats, n \in Names :
             (set_active_session(c, n) /\ n \notin StoredNames(storage_data, c))
                => /\ ~returned'.ok
                   /\ storage_data' = storage_data
                   /\ disk' = disk]_vars

\* The active session of a chat with two sessions was deleted and the other
\* one is active.
C38_Witness ==
    /\ returned.op = "delete_session"
    /\ returned.ok
    /\ returned.chat_id \in DOMAIN storage_data
    /\ returned.name \notin Keys(storage_data[returned.chat_id].sessions)
    /\ storage_data[returned.chat_id].active_session = "work"
    /\ returned.name = "main"

\* C37: the exchange of a send_prompt that finishes on a Session the
\* registry no longer holds (it was closed, or replaced by a create_new of
\* its name, while the exchange ran) writes nothing to the store.
C37_NoStaleWriteBack ==
    [][\A g \in Prompts :
          (/\ streams[g].pc # "none"
           /\ ~Registered(streams[g].session)
           /\ streams'[g].pc = "none")
             => storage_data' = storage_data]_vars

(***************************************************************************)
(* The handlers of the sessions are separate.                              *)
(***************************************************************************)
\* The calls on a session's PermissionHandler.
EngineCalls ==
    {"request_permission", "approve", "deny", "sticky_approve",
     "clear_sticky_approvals"}

\* What the handler of Session r holds in the state objs.
HandlerOf(objs, r) ==
    <<objs[r].has_pending, objs[r].pending_tool, objs[r].sticky_approvals>>

\* C39: request_permission, approve, deny, sticky_approve and
\* clear_sticky_approvals on the handler of one session change neither the
\* pending request nor the sticky approvals of any other session, of the
\* same chat or of another.
C39_EngineIsolation ==
    [][returned'.op \in EngineCalls =>
          \A r \in SessionRefs \ {returned'.session} :
             /\ session_objects'[r].chat_id = session_objects[r].chat_id
             /\ HandlerOf(session_objects', r) = HandlerOf(session_objects, r)]_vars

\* A request was answered with a sticky approval on one session while a
\* request pends on a session of another chat and a second session of the
\* same chat holds sticky approvals.
C39_Witness ==
    /\ returned.op = "sticky_approve"
    /\ returned.ok
    /\ returned.session # 0
    /\ \E r \in SessionRefs \ {returned.session} :
          /\ session_objects[r].has_pending
          /\ session_objects[r].chat_id # returned.chat_id
    /\ \E r \in SessionRefs \ {returned.session} :
          /\ session_objects[r].sticky_approvals # <<>>
          /\ session_objects[r].chat_id = returned.chat_id

(***************************************************************************)
(* The sticky approvals live and die with their Session object.            *)
(***************************************************************************)
\* The sticky approvals of the session of chat c under name n, before and
\* after the step.
StickyOf(c, n) == session_objects[GetItem(sessions[c], n)].sticky_approvals

StickyOfNext(c, n) ==
    session_objects'[GetItem(sessions'[c], n)].sticky_approvals

\* C31: the sticky approvals are never persisted; the session that
\* create_new or create_new_async returns, a replacement included, and every
\* session restored from the store has an empty sticky list; switch_session
\* and rename_session leave the sticky list of each session as it was, a
\* renamed session keeping its list under its new name.
C31_StickyWithSession ==
    [][/\ \A c \in DOMAIN storage_data' :
             \A i \in 1..Len(storage_data'[c].sessions) :
                "sticky_approvals"
                   \notin DOMAIN storage_data'[c].sessions[i].value
       /\ \A c \in RegistryChats, n \in Names :
             StepOn({"create_new", "create_new_async"}, c, n) =>
                StickyOfNext(c, n) = <<>>
       /\ returned'.op = "restore_sessions" =>
             \A c \in DOMAIN sessions' :
                \A n \in Keys(sessions'[c]) : StickyOfNext(c, n) = <<>>
       /\ \A c \in RegistryChats, name \in Names :
             switch_session(c, name) =>
                /\ sessions' = sessions
                /\ c \in DOMAIN sessions =>
                      \A n \in Keys(sessions[c]) :
                         StickyOfNext(c, n) = StickyOf(c, n)
       /\ \A c \in RegistryChats, o \in Names, n \in Names :
             rename_session(c, o, n) =>
                IF returned'.ok
                THEN /\ StickyOfNext(c, n) = StickyOf(c, o)
                     /\ \A m \in Keys(sessions[c]) \ {o} :
                           StickyOfNext(c, m) = StickyOf(c, m)
                ELSE /\ sessions' = sessions
                     /\ session_objects' = session_objects]_vars

\* create_new or create_new_async has made a session, with no sticky
\* approval, in a chat of which another session holds sticky approvals.
C31_Witness ==
    /\ returned.op \in {"create_new", "create_new_async"}
    /\ returned.ok
    /\ session_objects[returned.session].sticky_approvals = <<>>
    /\ \E n \in Keys(sessions[returned.chat_id]) :
          StickyOf(returned.chat_id, n) # <<>>

(***************************************************************************)
(* The answers of the user reach the request that pends.                   *)
(***************************************************************************)
\* A request pends on a session of chat c, in the registry or held by the
\* generator of a prompt.
PendsIn(objs, c) ==
    \E r \in SessionRefs : objs[r].chat_id = c /\ objs[r].has_pending

\* C36: while a request pends on a session of a chat, an approval or a
\* denial of the user in that chat resolves that request, also when the
\* chat's active session was switched, replaced by create_new or changed by
\* closing a session after the prompt started.
C36_AnswerRouted ==
    [][\A c \in Chats :
          (PendsIn(session_objects, c)
             /\ (handle_approve(c) \/ handle_reject(c)))
          => /\ returned'.ok
             /\ ~PendsIn(session_objects', c)]_vars

(***************************************************************************)
(* The restart of a chat.                                                  *)
(***************************************************************************)
\* The step ends the _do_restart that the "Yes, restart" button of chat c,
\* a chat with a session, started.
RestartHandled(c) ==
    /\ \/ confirm_restart(c)
       \/ do_restart_returns /\ tasks[awaiting].chat_id = c
    /\ returned'.op = "do_restart"

\* The active session of chat c after the step is a fresh one.
FreshNext(c) ==
    /\ c \in DOMAIN sessions'
    /\ active_name(active_sessions', c) \in Keys(sessions'[c])
    /\ LET session == session_objects'[GetItem(sessions'[c],
                                               active_name(active_sessions', c))]
       IN  /\ session.message_count = 0
           /\ session.sticky_approvals = <<>>

\* C32: the restart request and the Cancel button of its dialog change no
\* session, neither a message_count nor a sticky approval, and no task; once
\* the "Yes, restart" button of a chat with a session is handled, every
\* prompt task of the chat is done or past its exchange, in the last step of
\* its finally clause, and the chat's active session is a fresh one, with
\* message_count 0 and no sticky approvals.
C32_RestartInTwoSteps ==
    [][\A c \in QueueChats :
          /\ (handle_restart(c) \/ cancel_restart(c)) =>
                /\ session_objects' = session_objects
                /\ sessions' = sessions
                /\ active_sessions' = active_sessions
                /\ tasks' = tasks
          /\ RestartHandled(c) =>
                /\ \A t \in Prompts :
                      tasks'[t].chat_id = c =>
                         tasks'[t].pc \in {"cleanup", "done"}
                /\ FreshNext(c)]_vars

(***************************************************************************)
(* The buttons of the sessions act on their sessions.                      *)
(***************************************************************************)
\* What the press of a button is for: the handler of the button's kind runs
\* on the session the button was made for.
Intended(c, button) ==
    CASE button.kind = "new" -> HandleSessionNew(c)
      [] button.kind = "switch" -> SwitchSession(c, button.name)
      [] button.kind = "rename" ->
            /\ pending_renames' = [pending_renames EXCEPT ![c] = button.name]
            /\ BotReturned("session_rename", c, TRUE)
      [] button.kind = "close" -> HandleSessionClose(c, button.name)
      [] button.kind = "close_confirm" ->
            CloseSession("close_session_async", c, button.name, TRUE)
      [] button.kind = "close_cancel" ->
            BotReturned("session_close_cancel", c, TRUE)

\* C40: the press of a button of the sessions dialog or of the close
\* confirmation acts on exactly the session the button was shown for, also
\* when the name of that session starts with "confirm_" or "cancel_": the
\* switch button makes it active, the rename button asks for its new name,
\* the close button asks for the confirmation of its close and closes
\* nothing, and the "Yes, close" button closes it.
C40_ButtonActsOnItsSession ==
    [][\A c \in RegistryChats, button \in DialogButtons :
          press_button(c, button) => Intended(c, button)]_vars

====
